---------------------------- MODULE Spec2Model ----------------------------
(***************************************************************************)
(* Model of the session multiplexer of apps/server (agents.rs, pty.rs,     *)
(* main.rs) and of the desktop registry (src-tauri agents/manager.rs).     *)
(*                                                                         *)
(* Every control-plane handler is one action (it runs under the registry   *)
(* lock and the per-field mutexes, so its effects are applied as one       *)
(* step).  Reader threads run concurrently with the handlers: one action   *)
(* per loop iteration.  The PTY reader is split at the point where another *)
(* thread can act between its kill-channel check and its publish.          *)
(***************************************************************************)
EXTENDS Naturals, Integers, Sequences, FiniteSets, TLC

VARIABLES
    agents,     \* AgentManager.agents: HashMap id -> AgentProcess (server)
    children,   \* one record per spawn attempt of send_message, in spawn order
    bus,        \* every message sent on broadcast_tx, in send order
    seen,       \* history: per registered agent, the session ids its frames carried
    terminals,  \* TerminalManager.terminals: HashMap id -> TerminalSession
    ptys,       \* one record per PTY opened by create_terminal, in creation order
    tbus,       \* every message sent on terminal_broadcast_tx, in send order
    last,       \* the most recent control-plane call and what it returned
    published,  \* per broadcast channel: events sent so far, and send bursts
    gateway,    \* one WebSocket connection: handle_socket and its two tasks
    wsOut,      \* the frames the outbound task has sent to the client
    wsIn,       \* the inbound frames the inbound task has routed
    fsys,       \* the host's file system: path -> directory, file or symlink
    rw,         \* the two registry RwLocks: handler tasks and wait queues
    inbound,    \* the inbound tasks of the connections and what they wrote to PTYs
    desktop     \* the desktop host's session: its reader threads and emitted events

agentVars == <<agents, children, bus, seen>>
termVars == <<terminals, ptys, tbus>>
gwVars == <<published, gateway, wsOut, wsIn>>
fileVars == <<fsys>>
lockVars == <<rw>>
inputVars == <<inbound>>
deskVars == <<desktop>>
vars == <<agents, children, bus, seen, terminals, ptys, tbus, last,
          published, gateway, wsOut, wsIn, fsys, rw, inbound, desktop>>

---------------------------------------------------------------------------
(* Bounds and input domains *)

MaxChildren == 2        \* spawn attempts of send_message over a run
MaxLines == 2           \* lines the stdout readers get over a run
MaxTerms == 2           \* PTYs opened over a run
MaxChunks == 2          \* chunks the PTY readers get over a run
MaxSends == 2           \* bursts of sends on one broadcast channel over a run
MaxForwards == 2        \* frames the outbound task sends to the client
MaxInbound == 2         \* inbound frames the inbound task routes
MaxTasks == 2           \* handler and inbound tasks running at the same time
MaxConns == 2           \* client connections
MaxFrames == 2          \* frames the inbound task of one connection handles
FrameLen == 2           \* write calls write_all needs for one terminal-input frame

Capacity == 1000        \* broadcast::channel(1000), main.rs 92-93

AgentIds == {"a1"}
TermIds == {"t1"}

---------------------------------------------------------------------------
(* Option<T> *)

None == <<>>
Some(x) == <<x>>
IsSome(o) == o # <<>>
Unwrap(o) == o[1]

---------------------------------------------------------------------------
(* Lines of a child's stdout.  kind "text" is a line that is not JSON,     *)
(* "json" a line serde_json parses, "ioerr" a failed read (the Err item of *)
(* BufReader::lines).  type / session_id are json.get(..).as_str().        *)

Text == [kind |-> "text", type |-> None, session_id |-> None]
IoErr == [kind |-> "ioerr", type |-> None, session_id |-> None]
Frame(t, s) == [kind |-> "json", type |-> t, session_id |-> s]

\* the lines the children write in Spec: the frames of a plain turn
StatusLines ==
    { Frame(Some("assistant"), None),
      Frame(Some("result"), Some("S1")) }

\* the lines the children write in SpecSid: frames that carry session ids
SidLines ==
    { Frame(Some("system"), Some("S1")),
      Frame(Some("result"), Some("S2")),
      Frame(Some("assistant"), Some("")),
      Frame(Some("result"), None) }

\* the frame types the stdout reader knows (agents.rs 220-234) and one it
\* does not
KnownTypes ==
    {"assistant", "content_block_delta", "content_block_start", "result",
     "message_stop", "content_block_stop", "message_end", "error"}
FrameTypes == KnownTypes \cup {"system"}

\* the lines the children write in SpecParse: a line that is not JSON, JSON
\* without a string "type", every frame type without a session id, and
\* frames of three types with session ids
ParseLines ==
    {Text}
    \cup {Frame(None, s) : s \in {None, Some("S1")}}
    \cup {Frame(Some(t), None) : t \in FrameTypes}
    \cup {Frame(Some(t), Some(s)) : t \in {"system", "assistant", "result"},
                                   s \in {"S1", "S2"}}

AgentStatusEv(id, s) == [type |-> "agent-status", agent_id |-> id, status |-> s]
AgentOutputEv(id, st, d) ==
    [type |-> "agent-output", agent_id |-> id, stream |-> st, data |-> d]

\* a mapping that takes an error frame for the end of a turn
StatusOfErrorIdle(msg_type) ==
    CASE msg_type \in {"assistant", "content_block_delta", "content_block_start"}
            -> Some("working")
      [] msg_type \in {"result", "message_stop", "content_block_stop",
                       "message_end", "error"}
            -> Some("idle")
      [] OTHER -> None

\* a mapping that does not know the assistant frame
StatusOfNoAssistant(msg_type) ==
    CASE msg_type \in {"content_block_delta", "content_block_start"}
            -> Some("working")
      [] msg_type \in {"result", "message_stop", "content_block_stop", "message_end"}
            -> Some("idle")
      [] msg_type = "error" -> Some("error")
      [] OTHER -> None

\* agents.rs 219-236: the status a frame type maps to
StatusOf(msg_type) ==
    CASE msg_type \in {"assistant", "content_block_delta", "content_block_start"}
            -> Some("working")
      [] msg_type = "result" -> Some("idle")
      [] msg_type \in {"message_stop", "content_block_stop", "message_end"}
            -> Some("idle")
      [] msg_type = "error" -> Some("error")
      [] OTHER -> None

\* a parser in which every frame that carries a session id overwrites
SidAfterAlways(stored, line) ==
    IF IsSome(line.session_id) THEN line.session_id ELSE stored

\* a parser that takes the session id from result frames only
SidAfterResultOnly(stored, line) ==
    IF line.type = Some("result") /\ IsSome(line.session_id)
    THEN line.session_id
    ELSE stored

\* a parser that forgets the stored id when a result frame repeats it
SidAfterToggle(stored, line) ==
    IF line.type = Some("result") /\ IsSome(line.session_id)
    THEN IF stored = line.session_id THEN None ELSE line.session_id
    ELSE IF IsSome(line.session_id) /\ ~IsSome(stored)
    THEN line.session_id ELSE stored

\* agents.rs 210-230: the stored conversation id after one parsed frame
SidAfter(stored, line) ==
    LET first == IF IsSome(line.session_id) /\ ~IsSome(stored)
                 THEN line.session_id ELSE stored
    IN  IF line.type = Some("result") /\ IsSome(line.session_id)
        THEN line.session_id
        ELSE first

\* agents.rs 218-251: the messages one stdout line puts on the bus, in order
LineEvents(id, line) ==
    LET st == IF line.kind = "json" /\ IsSome(line.type)
              THEN StatusOf(Unwrap(line.type)) ELSE None
    IN  (IF IsSome(st) THEN <<AgentStatusEv(id, Unwrap(st))>> ELSE <<>>)
        \o <<AgentOutputEv(id, "stdout", line)>>

---------------------------------------------------------------------------
(* State helpers *)

Present(id) == id \in DOMAIN agents
Insert(m, id, v) == [x \in DOMAIN m \cup {id} |-> IF x = id THEN v ELSE m[x]]
Remove(m, id) == [x \in DOMAIN m \ {id} |-> m[x]]

Call(op, id, res) == [op |-> op, id |-> id, res |-> res]

\* a stop that clears the handle and leaves the process alone
NotKilled(cs, h) ==
    IF IsSome(h) THEN [cs EXCEPT ![Unwrap(h)].hit = TRUE] ELSE cs

\* Child::kill on the child held in a handle: SIGKILL closes its stdout.
\* hit records that a kill was delivered (also to a child that had ended).
Killed(cs, h) ==
    IF IsSome(h)
    THEN [cs EXCEPT ![Unwrap(h)].proc = IF @ = "running" THEN "killed" ELSE @,
                    ![Unwrap(h)].hit = TRUE]
    ELSE cs

\* the readers of a dropped AgentProcess keep its session_id Arc to themselves
Orphaned(cs, id) ==
    [c \in DOMAIN cs |-> IF cs[c].agent = id THEN [cs[c] EXCEPT !.orphan = TRUE]
                                             ELSE cs[c]]

EmptyMap == [x \in {} |-> None]

\* the two broadcast channels of AppState, main.rs 92-93
Buses == {"agent", "terminal"}

\* nothing sent on either channel yet
NoEvents == [b \in Buses |-> [tail |-> 0, sends |-> 0]]

\* no WebSocket connection yet
NoGateway ==
    [st |-> "none", start |-> [b \in Buses |-> 0], next |-> [b \in Buses |-> 0],
     disabled |-> {}, send_task |-> "none", recv_task |-> "none",
     socket |-> "none", lags |-> 0]

\* the working_dir the agents are created with, and a directory next to it
WorkingDir == <<"ws">>
OutsideDir == <<"out">>

Dir == [kind |-> "dir", target |-> <<>>, content |-> ""]
File(content) == [kind |-> "file", target |-> <<>>, content |-> content]
Link(target) == [kind |-> "link", target |-> target, content |-> ""]

\* the file system when the server starts: the workspace with a file and a
\* directory, and a file outside the workspace.  A path is the sequence of
\* its components from the root.
InitialFs ==
    (<<>> :> Dir)
    @@ (WorkingDir :> Dir)
    @@ (Append(WorkingDir, "a.txt") :> File("old"))
    @@ (Append(WorkingDir, "sub") :> Dir)
    @@ (OutsideDir :> Dir)
    @@ (Append(OutsideDir, "secret") :> File("old"))

\* the tasks that run handlers, and the two registries of AppState
Tasks == 1..MaxTasks
Registries == {"agent_manager", "terminal_manager"}

\* no handler running, nobody waiting for a registry lock
NoTasks ==
    [tasks |-> [t \in Tasks |-> [op |-> "none", pc |-> "idle"]],
     queue |-> [r \in Registries |-> <<>>]]

\* the client connections
Conns == 1..MaxConns

\* a connection whose inbound task has not been spawned.  n: frames handled,
\* kind: the kind of the last frame received, pty / k: the PTY being written
\* and the write calls done for the current frame, sent: frames the inbound
\* task has sent to the client
NoConn ==
    [task |-> "none", pc |-> "next", n |-> 0, k |-> 0, pty |-> 0,
     kind |-> "none", sent |-> 0]

\* no connection; per PTY: the writer mutex is free (0), nothing written, no
\* resize applied
NoInbound ==
    [conns |-> [c \in Conns |-> NoConn],
     writer |-> [r \in 1..MaxTerms |-> 0],
     written |-> <<>>,
     sizes |-> [r \in 1..MaxTerms |-> <<>>]]

\* the settings create_agent is called with: default_model (main.rs 297-299),
\* thinking off, no MCP servers
DefaultSettings == [model |-> "sonnet", thinking_enabled |-> FALSE, mcp_servers |-> <<>>]

\* AgentProcess::new, agents.rs 101-111
NewAgent ==
    [session_id |-> None, current_child |-> None,
     model |-> DefaultSettings.model,
     thinking_enabled |-> DefaultSettings.thinking_enabled,
     mcp_servers |-> DefaultSettings.mcp_servers]
NewSeen == [first |-> None, result |-> None]

\* the desktop host's one session (process.rs 65-71): no conversation id, no
\* child; emitted = what app_handle.emit was given, in order
DesktopAgent == "d1"
NoDesktop == [session_id |-> None, emitted |-> <<>>, readers |-> <<>>, sends |-> 0]

Init ==
    /\ agents = EmptyMap
    /\ children = <<>>
    /\ bus = <<>>
    /\ seen = EmptyMap
    /\ terminals = EmptyMap
    /\ ptys = <<>>
    /\ tbus = <<>>
    /\ last = Call("none", "", "ok")
    /\ published = NoEvents
    /\ gateway = NoGateway
    /\ wsOut = <<>>
    /\ wsIn = <<>>
    /\ fsys = InitialFs
    /\ rw = NoTasks
    /\ inbound = NoInbound
    /\ desktop = NoDesktop

---------------------------------------------------------------------------
(* Control plane: AgentManager under AppState.agent_manager *)

\* create_agent with a client-supplied id (a server-minted uuid is the case
\* of an id not in the registry).  cli: find_claude_cli succeeds.  insert()
\* replaces a session stored under the id; the replaced AgentProcess is
\* dropped, and Drop calls kill() (agents.rs 333-337).
create_agent(id, cli, killOk) ==
    /\ killOk \/ (cli /\ Present(id) /\ IsSome(agents[id].current_child))
    /\ IF ~cli
       THEN /\ last' = Call("create_agent", id, "err")
            /\ UNCHANGED <<agentVars, termVars, gwVars, fileVars, lockVars, inputVars, deskVars>>
       ELSE /\ agents' = Insert(agents, id, NewAgent)
            /\ seen' = Insert(seen, id, NewSeen)
            /\ children' =
                 IF Present(id)
                 THEN Orphaned(IF killOk THEN Killed(children, agents[id].current_child)
                                         ELSE children, id)
                 ELSE children
            /\ last' = Call("create_agent", id, "ok")
            /\ UNCHANGED <<bus, termVars, gwVars, fileVars, lockVars, inputVars, deskVars>>

\* kill_agent, agents.rs 376-382: remove, then AgentProcess::kill, then the
\* drop of the session.  kill() leaves the handle in place when Child::kill
\* fails (308-311), so Drop tries once more: dropOk is that second answer.
kill_agent(id, killOk, dropOk) ==
    /\ killOk => dropOk
    /\ IF Present(id)
       THEN /\ agents' = Remove(agents, id)
            /\ seen' = Remove(seen, id)
            /\ children' =
                 Orphaned(IF killOk \/ dropOk
                          THEN Killed(children, agents[id].current_child)
                          ELSE children, id)
            /\ last' = Call("kill_agent", id,
                            IF IsSome(agents[id].current_child) /\ ~killOk
                            THEN "err" ELSE "ok")
            /\ UNCHANGED <<bus, termVars, gwVars, fileVars, lockVars, inputVars, deskVars>>
       ELSE /\ last' = Call("kill_agent", id, "not_found")
            /\ UNCHANGED <<agentVars, termVars, gwVars, fileVars, lockVars, inputVars, deskVars>>

\* stop_agent -> AgentProcess::stop
stop_agent(id, killOk) ==
    IF ~Present(id)
    THEN /\ last' = Call("stop_agent", id, "not_found")
         /\ UNCHANGED <<agentVars, termVars, gwVars, fileVars, lockVars, inputVars, deskVars>>
    ELSE IF ~IsSome(agents[id].current_child)
    THEN /\ last' = Call("stop_agent", id, "ok")
         /\ UNCHANGED <<agentVars, termVars, gwVars, fileVars, lockVars, inputVars, deskVars>>
    ELSE IF ~killOk
    THEN /\ last' = Call("stop_agent", id, "err")
         /\ UNCHANGED <<agentVars, termVars, gwVars, fileVars, lockVars, inputVars, deskVars>>
    ELSE /\ children' = Killed(children, agents[id].current_child)
         /\ agents' = [agents EXCEPT ![id].current_child = None]
         /\ bus' = Append(bus, AgentStatusEv(id, "idle"))
         /\ last' = Call("stop_agent", id, "ok")
         /\ UNCHANGED <<seen, termVars, gwVars, fileVars, lockVars, inputVars, deskVars>>

\* an update in which a field that is not supplied goes back to its default
UpdateSettingsResets(agent, model, thinking_enabled, mcp_servers) ==
    [agent EXCEPT
       !.model = IF IsSome(model) THEN Unwrap(model) ELSE DefaultSettings.model,
       !.thinking_enabled = IF IsSome(thinking_enabled) THEN Unwrap(thinking_enabled)
                            ELSE DefaultSettings.thinking_enabled,
       !.mcp_servers = IF IsSome(mcp_servers) THEN Unwrap(mcp_servers)
                       ELSE DefaultSettings.mcp_servers]

\* AgentProcess::update_settings, agents.rs 316-326
UpdateSettings(agent, model, thinking_enabled, mcp_servers) ==
    [agent EXCEPT
       !.model = IF IsSome(model) THEN Unwrap(model) ELSE @,
       !.thinking_enabled = IF IsSome(thinking_enabled) THEN Unwrap(thinking_enabled)
                            ELSE @,
       !.mcp_servers = IF IsSome(mcp_servers) THEN Unwrap(mcp_servers) ELSE @]

\* AgentManager::update_agent_settings, agents.rs 410-423
update_agent_settings(id, model, thinking_enabled, mcp_servers) ==
    IF Present(id)
    THEN /\ agents' = [agents EXCEPT ![id] =
                         UpdateSettings(@, model, thinking_enabled, mcp_servers)]
         /\ last' = Call("update_agent_settings", id, "ok")
         /\ UNCHANGED <<children, bus, seen, termVars, gwVars, fileVars, lockVars, inputVars, deskVars>>
    ELSE /\ last' = Call("update_agent_settings", id, "not_found")
         /\ UNCHANGED <<agentVars, termVars, gwVars, fileVars, lockVars, inputVars, deskVars>>

\* the child record send_message creates: proc = the process, rd and erd =
\* its stdout and stderr reader tasks, nread and nerr = the lines they have
\* read.  History fields: at = place of
\* the send's thinking event on the bus, doneAt = place of the reader's final
\* idle, alone = no earlier reader publishing under the id was still active,
\* overlap = an earlier child of the session was still alive.
NewChild(id, resume, settings, spawned, at, alone, overlap) ==
    [agent |-> id, orphan |-> FALSE, resume |-> resume, settings |-> settings,
     proc |-> IF spawned THEN "running" ELSE "failed",
     nread |-> 0, hit |-> FALSE,
     rd |-> IF spawned THEN "active" ELSE "done",
     erd |-> IF spawned THEN "active" ELSE "done", nerr |-> 0,
     at |-> at, doneAt |-> 0, alone |-> alone, overlap |-> overlap]

\* what send_message takes from the session for the child's command line
\* and environment, agents.rs 144-176: --model, MAX_THINKING_TOKENS,
\* CLAUDE_MCP_SERVERS
SpawnSettings(agent) ==
    [model |-> agent.model, thinking_enabled |-> agent.thinking_enabled,
     mcp_servers |-> agent.mcp_servers]

\* a send that never passes --resume
ResumeArgNone(stored) == None

\* the --resume argument, agents.rs 148-153: Some(sid) appends "--resume", sid
ResumeArg(stored) == stored

\* a send that reports a failed spawn to its caller only
SendEventsNoError(id, spawned) == <<AgentStatusEv(id, "thinking")>>

\* the statuses send_message publishes itself: thinking (agents.rs 121-125)
\* and, when Command::spawn fails, error (181-187)
SendEvents(id, spawned) ==
    IF spawned
    THEN <<AgentStatusEv(id, "thinking")>>
    ELSE <<AgentStatusEv(id, "thinking"), AgentStatusEv(id, "error")>>

\* send_message -> AgentProcess::send_message.  env: what the host answers
\* to find_claude_cli and to Command::spawn.
send_message(id, env) ==
    IF ~Present(id)
    THEN /\ last' = Call("send_message", id, "not_found")
         /\ UNCHANGED <<agentVars, termVars, gwVars, fileVars, lockVars, inputVars, deskVars>>
    ELSE IF env = "no_cli"
    THEN /\ last' = Call("send_message", id, "err")
         /\ UNCHANGED <<agentVars, termVars, gwVars, fileVars, lockVars, inputVars, deskVars>>
    ELSE /\ Len(children) < MaxChildren
         /\ LET c == Len(children) + 1
                alone == \A k \in DOMAIN children :
                            children[k].agent = id => children[k].rd = "done"
                overlap == \E k \in DOMAIN children :
                              /\ children[k].agent = id
                              /\ ~children[k].orphan
                              /\ children[k].proc = "running"
                child == NewChild(id, ResumeArg(agents[id].session_id),
                                  SpawnSettings(agents[id]),
                                  env = "ok", Len(bus) + 1, alone, overlap)
            IN  /\ children' = Append(children, child)
                /\ bus' = bus \o SendEvents(id, env = "ok")
                /\ IF env = "ok"
                   THEN /\ agents' = [agents EXCEPT ![id].current_child = Some(c)]
                        /\ last' = Call("send_message", id, "ok")
                   ELSE /\ agents' = agents
                        /\ last' = Call("send_message", id, "err")
                /\ UNCHANGED <<seen, termVars, gwVars, fileVars, lockVars, inputVars, deskVars>>

---------------------------------------------------------------------------
(* The child process and its stdout reader thread.  The pipe between them *)
(* buffers: a line the reader gets may have been written at any earlier    *)
(* moment, also before the child was killed, so the line is the reader's   *)
(* input; end-of-stream needs the child's end of the pipe closed.          *)

RECURSIVE LinesRead(_)
LinesRead(cs) == IF cs = <<>> THEN 0 ELSE Head(cs).nread + LinesRead(Tail(cs))

\* the child ends on its own: its stdout is closed
ChildExit(c) ==
    /\ c \in DOMAIN children
    /\ children[c].proc = "running"
    /\ children' = [children EXCEPT ![c].proc = "exited"]
    /\ UNCHANGED <<agents, bus, seen, termVars, gwVars, fileVars, lockVars, inputVars, deskVars, last>>

\* history of the session ids the frames of a session carried
SeenAfter(h, line) ==
    [first |-> IF IsSome(line.session_id) /\ ~IsSome(h.first)
               THEN line.session_id ELSE h.first,
     result |-> IF line.type = Some("result") /\ IsSome(line.session_id)
                THEN line.session_id ELSE h.result]

\* a reader that ends without a word
FinalEventsNone(id) == <<>>

\* agents.rs 257-260: what the stdout reader publishes when its loop has ended
FinalEvents(id) == <<AgentStatusEv(id, "idle")>>

\* one iteration of `for line in reader.lines()`, agents.rs 205-255, and the
\* final idle of 257-260 when the iteration ends with a read error
ReadLine(c, line) ==
    /\ c \in DOMAIN children
    /\ children[c].rd = "active"
    /\ LinesRead(children) < MaxLines
    /\ LET ch == children[c]
           id == ch.agent
       IN  IF line.kind = "ioerr"
           THEN /\ bus' = bus \o FinalEvents(id)
                /\ children' = [children EXCEPT ![c].rd = "done",
                                                 ![c].doneAt = Len(bus) + 1]
                /\ UNCHANGED <<agents, seen, termVars, gwVars, fileVars, lockVars, inputVars, deskVars, last>>
           ELSE /\ bus' = bus \o LineEvents(id, line)
                /\ children' = [children EXCEPT ![c].nread = @ + 1]
                /\ IF ch.orphan \/ line.kind # "json"
                   THEN UNCHANGED <<agents, seen>>
                   ELSE /\ agents' = [agents EXCEPT ![id].session_id =
                                                        SidAfter(@, line)]
                        /\ seen' = [seen EXCEPT ![id] = SeenAfter(@, line)]
                /\ UNCHANGED <<termVars, gwVars, fileVars, lockVars, inputVars, deskVars, last>>

\* end-of-stream: the loop ends and the final idle is sent, agents.rs 257-260
ReadEof(c) ==
    /\ c \in DOMAIN children
    /\ children[c].rd = "active"
    /\ children[c].proc # "running"
    /\ bus' = bus \o FinalEvents(children[c].agent)
    /\ children' = [children EXCEPT ![c].rd = "done", ![c].doneAt = Len(bus) + 1]
    /\ UNCHANGED <<agents, seen, termVars, gwVars, fileVars, lockVars, inputVars, deskVars, last>>

---------------------------------------------------------------------------
(* Terminals: TerminalManager under AppState.terminal_manager, pty.rs *)

TerminalOutputEv(tid) == [type |-> "terminal-output", terminal_id |-> tid]

TPresent(tid) == tid \in DOMAIN terminals

\* the record of one PTY: its shell, its kill channel (shutdown_tx/rx, room
\* for one message), its reader task, and whether its TerminalSession is
\* "registered", was removed by kill_terminal ("killed") or was replaced by
\* an insert under the same id ("replaced")
NewPty(tid) ==
    [tid |-> tid, shell |-> "running", signal |-> 0, pc |-> "read", nread |-> 0,
     session |-> "registered"]

\* Child::kill on the shell of PTY r
ShellKilled(ps, r) ==
    [ps EXCEPT ![r].shell = IF @ = "running" THEN "killed" ELSE @]

\* impl Drop for TerminalSession, pty.rs 58-67: kills the shell; the fields
\* (shutdown_tx among them) are dropped without a message being sent
DropSession(ps, r, killOk, how) ==
    [(IF killOk THEN ShellKilled(ps, r) ELSE ps) EXCEPT ![r].session = how]

\* shutdown_tx.try_send(()), pty.rs 211
TrySend(ps, r) == [ps EXCEPT ![r].signal = 1]

\* create_terminal, pty.rs 83-206.  pty: openpty, spawn_command and the
\* reader/writer clones succeed.  insert() replaces a session stored under
\* the id, and the replaced TerminalSession is dropped.
create_terminal(tid, pty, killOk) ==
    /\ killOk \/ (pty /\ TPresent(tid))
    /\ IF ~pty
       THEN /\ last' = Call("create_terminal", tid, "err")
            /\ UNCHANGED <<agentVars, gwVars, fileVars, lockVars, inputVars, deskVars, termVars>>
       ELSE /\ Len(ptys) < MaxTerms
            /\ LET r == Len(ptys) + 1
                   opened == Append(ptys, NewPty(tid))
               IN  /\ ptys' = IF TPresent(tid)
                               THEN DropSession(opened, terminals[tid].pty, killOk, "replaced")
                               ELSE opened
                   /\ terminals' = Insert(terminals, tid, [pty |-> r])
            /\ last' = Call("create_terminal", tid, "ok")
            /\ UNCHANGED <<agentVars, gwVars, fileVars, lockVars, inputVars, deskVars, tbus>>

\* kill_terminal, pty.rs 208-227, and the drop of the removed session
kill_terminal(tid, killOk) ==
    IF TPresent(tid)
    THEN /\ terminals' = Remove(terminals, tid)
         /\ ptys' = DropSession(TrySend(ptys, terminals[tid].pty),
                                terminals[tid].pty, killOk, "killed")
         /\ last' = Call("kill_terminal", tid, "ok")
         /\ UNCHANGED <<agentVars, gwVars, fileVars, lockVars, inputVars, deskVars, tbus>>
    ELSE /\ last' = Call("kill_terminal", tid, "not_found")
         /\ UNCHANGED <<agentVars, gwVars, fileVars, lockVars, inputVars, deskVars, termVars>>

\* the shell ends on its own (the user types exit)
ShellExit(r) ==
    /\ r \in DOMAIN ptys
    /\ ptys[r].shell = "running"
    /\ ptys' = [ptys EXCEPT ![r].shell = "exited"]
    /\ UNCHANGED <<agentVars, gwVars, fileVars, lockVars, inputVars, deskVars, terminals, tbus, last>>

RECURSIVE ChunksRead(_)
ChunksRead(ps) == IF ps = <<>> THEN 0 ELSE Head(ps).nread + ChunksRead(Tail(ps))

\* reader.read(&mut buf), pty.rs 157-162 and 178-189.  The PTY buffers: a
\* chunk may have been written before the shell ended.  res is what the
\* read returns: "data" (Ok(n), n > 0), "eof" (Ok(0) or an error other than
\* WouldBlock: the slave side is closed) or "wouldblock".
PtyRead(r, res) ==
    /\ r \in DOMAIN ptys
    /\ ptys[r].pc = "read"
    /\ CASE res = "data" ->
              /\ ChunksRead(ptys) < MaxChunks
              /\ ptys' = [ptys EXCEPT ![r].pc = "check", ![r].nread = @ + 1]
         [] res = "eof" ->
              /\ ptys[r].shell # "running"
              /\ ptys' = [ptys EXCEPT ![r].pc = "done"]
         [] res = "wouldblock" ->
              /\ ptys' = ptys
    /\ UNCHANGED <<agentVars, gwVars, fileVars, lockVars, inputVars, deskVars, terminals, tbus, last>>

\* a reader that never finds a message on its kill channel
KillPendingNever(p) == FALSE

\* shutdown_rx.try_recv().is_ok(), pty.rs 165: a message is on the channel
KillPending(p) == p.signal > 0

\* the check of the kill channel between a read and its publish, pty.rs 165-168
PtyCheck(r) ==
    /\ r \in DOMAIN ptys
    /\ ptys[r].pc = "check"
    /\ ptys' = IF KillPending(ptys[r])
               THEN [ptys EXCEPT ![r].signal = 0, ![r].pc = "done"]
               ELSE [ptys EXCEPT ![r].pc = "send"]
    /\ UNCHANGED <<agentVars, gwVars, fileVars, lockVars, inputVars, deskVars, terminals, tbus, last>>

\* broadcast_tx.send(output), pty.rs 170-176
PtySend(r) ==
    /\ r \in DOMAIN ptys
    /\ ptys[r].pc = "send"
    /\ tbus' = Append(tbus, TerminalOutputEv(ptys[r].tid))
    /\ ptys' = [ptys EXCEPT ![r].pc = "read"]
    /\ UNCHANGED <<agentVars, gwVars, fileVars, lockVars, inputVars, deskVars, terminals, last>>

TermCalls ==
    \/ \E tid \in TermIds, pty, killOk \in BOOLEAN : create_terminal(tid, pty, killOk)
    \/ \E tid \in TermIds, killOk \in BOOLEAN : kill_terminal(tid, killOk)

TermThreads ==
    \/ \E r \in 1..MaxTerms : ShellExit(r)
    \/ \E r \in 1..MaxTerms, res \in {"data", "eof", "wouldblock"} : PtyRead(r, res)
    \/ \E r \in 1..MaxTerms : PtyCheck(r)
    \/ \E r \in 1..MaxTerms : PtySend(r)

NextTerm == TermCalls \/ TermThreads

SpecTerm == Init /\ [][NextTerm]_vars

---------------------------------------------------------------------------
\* what the host can answer: find_claude_cli, Child::kill, Command::spawn
AnyHost == [cli |-> BOOLEAN, killOk |-> BOOLEAN,
            env |-> {"ok", "spawn_fail", "no_cli"}]
\* a host on which the CLI is installed and spawn and kill succeed
GoodHost == [cli |-> {TRUE}, killOk |-> {TRUE}, env |-> {"ok"}]

AgentCalls(host) ==
    \/ \E id \in AgentIds, cli \in host.cli, killOk \in host.killOk :
            create_agent(id, cli, killOk)
    \/ \E id \in AgentIds, killOk \in host.killOk, dropOk \in host.killOk :
            kill_agent(id, killOk, dropOk)
    \/ \E id \in AgentIds, killOk \in host.killOk : stop_agent(id, killOk)
    \/ \E id \in AgentIds, env \in host.env : send_message(id, env)

RECURSIVE StderrRead(_)
StderrRead(cs) == IF cs = <<>> THEN 0 ELSE Head(cs).nerr + StderrRead(Tail(cs))

\* a stderr reader that parses its lines as the stdout reader does
StderrEventsParsed(id, line) ==
    LET st == IF line.kind = "json" /\ IsSome(line.type)
              THEN StatusOf(Unwrap(line.type)) ELSE None
    IN  (IF IsSome(st) THEN <<AgentStatusEv(id, Unwrap(st))>> ELSE <<>>)
        \o <<AgentOutputEv(id, "stderr", line)>>

\* agents.rs 273-280: the message one stderr line puts on the bus
StderrEvents(id, line) == <<AgentOutputEv(id, "stderr", line)>>

\* one iteration of the stderr reader's loop, agents.rs 271-283: the line is
\* published as it is; a read error ends the loop, and nothing follows it
ReadStderr(c, line) ==
    /\ c \in DOMAIN children
    /\ children[c].erd = "active"
    /\ StderrRead(children) < MaxLines
    /\ IF line.kind = "ioerr"
       THEN /\ children' = [children EXCEPT ![c].erd = "done"]
            /\ UNCHANGED bus
       ELSE /\ bus' = bus \o StderrEvents(children[c].agent, line)
            /\ children' = [children EXCEPT ![c].nerr = @ + 1]
    /\ UNCHANGED <<agents, seen, termVars, gwVars, fileVars, lockVars, inputVars, deskVars, last>>

\* end-of-stream on stderr, agents.rs 271: the loop and the thread end
StderrEof(c) ==
    /\ c \in DOMAIN children
    /\ children[c].erd = "active"
    /\ children[c].proc # "running"
    /\ children' = [children EXCEPT ![c].erd = "done"]
    /\ UNCHANGED <<agents, bus, seen, termVars, gwVars, fileVars, lockVars, inputVars, deskVars, last>>

StderrThreads(lines) ==
    \/ \E c \in 1..MaxChildren, line \in lines : ReadStderr(c, line)
    \/ \E c \in 1..MaxChildren : StderrEof(c)

AgentThreads(lines) ==
    \/ \E c \in 1..MaxChildren : ChildExit(c)
    \/ \E c \in 1..MaxChildren, line \in lines : ReadLine(c, line)
    \/ \E c \in 1..MaxChildren : ReadEof(c)

Next == AgentCalls(AnyHost) \/ AgentThreads(StatusLines \cup {IoErr})

Spec == Init /\ [][Next]_vars

\* the conversation id, on a host where spawn and kill succeed
NextSid == AgentCalls(GoodHost) \/ AgentThreads(SidLines)

SpecSid == Init /\ [][NextSid]_vars

\* the stream parser: one agent's sends and what its readers are fed, on a
\* host where the CLI is found and spawn succeeds
NextParse ==
    \/ \E id \in AgentIds : create_agent(id, TRUE, TRUE)
    \/ \E id \in AgentIds : send_message(id, "ok")
    \/ AgentThreads(ParseLines \cup {IoErr})

SpecParse == Init /\ [][NextParse]_vars

\* the two streams of the children of one session, created once: on stdout
\* a line of text and a frame; on stderr a frame that has a status and a
\* session id
StreamLines == {Text, Frame(Some("result"), Some("S1"))}
StderrLines == {Frame(Some("result"), Some("S1"))}
StreamAgent == CHOOSE id \in AgentIds : TRUE

\* a client that creates the session when there is none
CreateOnce(id) == ~Present(id) /\ create_agent(id, TRUE, TRUE)

NextStreams ==
    \/ CreateOnce(StreamAgent)
    \/ send_message(StreamAgent, "ok")
    \/ AgentThreads(StreamLines \cup {IoErr})
    \/ StderrThreads(StderrLines \cup {IoErr})

SpecStreams == Init /\ [][NextStreams]_vars

\* the sequences a HashMap's iter() may yield for the key set S: every key
\* once, in some order
IterOf(S) ==
    {q \in [1..Cardinality(S) -> S] : \A i, j \in 1..Cardinality(S) : q[i] = q[j] => i = j}

\* what a listing answered
Listing(op, ids) == [op |-> op, id |-> "", res |-> "ok", ids |-> ids]

\* list_agents handler, main.rs 345-355, AgentManager::list_agents
list_agents ==
    /\ \E ids \in IterOf(DOMAIN agents) : last' = Listing("list_agents", ids)
    /\ UNCHANGED <<agentVars, termVars, gwVars, fileVars, lockVars, inputVars, deskVars>>

\* list_terminals handler, main.rs 555-564, TerminalManager::list_terminals
list_terminals ==
    /\ \E ids \in IterOf(DOMAIN terminals) : last' = Listing("list_terminals", ids)
    /\ UNCHANGED <<agentVars, termVars, gwVars, fileVars, lockVars, inputVars, deskVars>>

\* the values an update may carry for each setting: absent, or a value
SettingsUpdates ==
    [model : {None, Some("sonnet"), Some("opus")},
     thinking_enabled : {None, Some(FALSE), Some(TRUE)},
     mcp_servers : {None, Some(<<>>), Some(<<"m1">>)}]

\* settings: creates, sends, updates and kills of one agent while its
\* children run and end, on a host where the CLI is found and spawn and
\* kill succeed
NextSettings ==
    \/ \E id \in AgentIds : create_agent(id, TRUE, TRUE)
    \/ \E id \in AgentIds : send_message(id, "ok")
    \/ \E id \in AgentIds, u \in SettingsUpdates :
            update_agent_settings(id, u.model, u.thinking_enabled, u.mcp_servers)
    \/ \E id \in AgentIds : kill_agent(id, TRUE, TRUE)
    \/ \E c \in 1..MaxChildren : ChildExit(c)

SpecSettings == Init /\ [][NextSettings]_vars

\* the control plane alone: handler calls while no reader thread is scheduled
NextCalls == AgentCalls(AnyHost) \/ TermCalls \/ list_agents \/ list_terminals

SpecCalls == Init /\ [][NextCalls]_vars

---------------------------------------------------------------------------
(* Properties *)

\* the messages a step puts on the agent bus
NewEvents == SubSeq(bus', Len(bus) + 1, Len(bus'))

\* the stdout lines of agent id whose output event a step publishes
StepLines(id) ==
    { NewEvents[i].data : i \in { j \in DOMAIN NewEvents :
                                    /\ NewEvents[j].type = "agent-output"
                                    /\ NewEvents[j].agent_id = id
                                    /\ NewEvents[j].stream = "stdout" } }

\* C1: a create_agent or create_terminal call whose id is already in the
\* registry fails, and the session stored under the id, its child process
\* and its reader are left as they were (stated for a host on which the CLI
\* is installed and the PTY can be opened).
C1_CreateConflict ==
    [][/\ \A id \in AgentIds :
            (Present(id) /\ create_agent(id, TRUE, TRUE))
            => /\ last'.res # "ok"
               /\ agents' = agents
               /\ children' = children
       /\ \A tid \in TermIds :
            (TPresent(tid) /\ create_terminal(tid, TRUE, TRUE))
            => /\ last'.res # "ok"
               /\ terminals' = terminals
               /\ ptys' = ptys]_vars

\* C2: once kill_terminal(id) has returned success, the reader task of the
\* session it removed publishes no terminal-output event any more.
C2_NoOutputAfterKill ==
    [][\A r \in DOMAIN ptys :
         (ptys[r].session = "killed" /\ ptys[r].shell = "killed") => ~PtySend(r)]_vars

ExpectedSid(h) == IF IsSome(h.result) THEN h.result ELSE h.first

---------------------------------------------------------------------------
(* Status events of one send *)

IsStatusOf(id, e) == e.type = "agent-status" /\ e.agent_id = id
IsStdoutOf(id, e) == e.type = "agent-output" /\ e.agent_id = id /\ e.stream = "stdout"

\* the status values published for session id within the bus segment w
StatusesIn(id, w) ==
    LET f == SelectSeq(w, LAMBDA e : IsStatusOf(id, e))
    IN  [i \in 1..Len(f) |-> f[i].status]

\* the types of the stdout frames published for session id within w
FrameTypesIn(id, w) ==
    LET f == SelectSeq(w, LAMBDA e : IsStdoutOf(id, e))
    IN  [i \in 1..Len(f) |-> f[i].data.type]

\* the bus segment from the thinking of the send that spawned child c to the
\* final idle of c's reader
SendWindow(c) == SubSeq(bus, children[c].at, children[c].doneAt)

\* child c wrote assistant frames and then a result frame and closed stdout
\* on its own, its reader has finished, and no other send or stop of the
\* session fell between the send and the reader's end
C6_Case(c) ==
    /\ c \in DOMAIN children
    /\ children[c].rd = "done"
    /\ children[c].proc = "exited"
    /\ ~children[c].hit
    /\ children[c].alone
    /\ \A k \in DOMAIN children :
          (k # c /\ children[k].agent = children[c].agent /\ children[k].at > children[c].at)
          => children[k].at > children[c].doneAt
    /\ LET ts == FrameTypesIn(children[c].agent, SendWindow(c))
       IN  /\ Len(ts) >= 2
           /\ ts[Len(ts)] = Some("result")
           /\ \A i \in 1..(Len(ts) - 1) : ts[i] = Some("assistant")

\* thinking, then one or more working, then idle, and only idle after it
ThinkingWorkingIdle(st) ==
    /\ Len(st) >= 3
    /\ st[1] = "thinking"
    /\ \E k \in 2..(Len(st) - 1) :
          /\ \A i \in 2..k : st[i] = "working"
          /\ \A i \in (k + 1)..Len(st) : st[i] = "idle"

\* C6: for a send whose child writes one or more assistant frames, then a
\* result frame, and closes stdout, with no other send or stop in between,
\* the bus carries the session's statuses as thinking, working (one or
\* more), idle, and no thinking, working or error follows the first idle.
C6_StatusOrder ==
    \A c \in DOMAIN children :
        C6_Case(c) => ThinkingWorkingIdle(StatusesIn(children[c].agent, SendWindow(c)))

\* C6 witness: such a send has run to its reader's end
C6_Witness == \E c \in DOMAIN children : C6_Case(c)

\* C7: stop on a session in the registry ends the current child if there is
\* one, keeps the session registered, and publishes idle for it, with or
\* without a child attached; a send after it succeeds and publishes thinking.
C7_StopPublishesIdle ==
    [][\A id \in AgentIds :
         /\ (Present(id) /\ stop_agent(id, TRUE))
            => /\ id \in DOMAIN agents'
               /\ agents'[id].current_child = None
               /\ IsSome(agents[id].current_child)
                  => children'[Unwrap(agents[id].current_child)].proc # "running"
               /\ NewEvents = <<AgentStatusEv(id, "idle")>>
         /\ (Present(id) /\ send_message(id, "ok"))
            => /\ last'.res = "ok"
               /\ NewEvents = <<AgentStatusEv(id, "thinking")>>]_vars

\* C8: kill_agent on a session in the registry ends its current child if
\* there is one, publishes an exited status for the id, and removes the
\* session from the registry.
C8_KillPublishesExited ==
    [][\A id \in AgentIds :
         (Present(id) /\ kill_agent(id, TRUE, TRUE))
         => /\ id \notin DOMAIN agents'
            /\ IsSome(agents[id].current_child)
               => children'[Unwrap(agents[id].current_child)].proc # "running"
            /\ NewEvents = <<AgentStatusEv(id, "exited")>>]_vars

\* C9: when the child of a session has ended, on its own (its reader saw
\* end-of-stream) or through stop or kill, the session's child handle is
\* empty.
C9_HandleClearedOnExit ==
    \A id \in DOMAIN agents :
        IsSome(agents[id].current_child)
        => LET ch == children[Unwrap(agents[id].current_child)]
           IN  ~(ch.proc \in {"exited", "killed"} /\ ch.rd = "done")

\* the children session id spawned, and those of them that are alive
ChildrenOf(id) ==
    { c \in DOMAIN children : children[c].agent = id /\ ~children[c].orphan }
AliveOf(id) == { c \in ChildrenOf(id) : children[c].proc = "running" }

\* at most one child of the session is alive, and it is the one in the handle
OneLiveChild(id) ==
    /\ Cardinality(AliveOf(id)) <= 1
    /\ \A c \in AliveOf(id) : agents[id].current_child = Some(c)

\* C10 as stated: under every sequence of send, stop and kill calls a session
\* has at most one live child, the one in its child handle.
C10_AtMostOneChild == \A id \in DOMAIN agents : OneLiveChild(id)

\* C10: when every send of the session was issued while no child it spawned
\* earlier was alive, the session has at most one live child, the one in its
\* child handle.
C10_OneChildWithoutOverlap ==
    \A id \in DOMAIN agents :
        (\A c \in ChildrenOf(id) : ~children[c].overlap) => OneLiveChild(id)

\* C10 witness: a session that sent twice without overlap: its first child
\* has ended and the second one is alive in the handle
C10_Witness ==
    \E id \in DOMAIN agents :
        /\ \A c \in ChildrenOf(id) : ~children[c].overlap
        /\ \E c, d \in ChildrenOf(id) :
              /\ c < d
              /\ children[c].proc \in {"exited", "killed"}
              /\ children[d].proc = "running"
              /\ agents[id].current_child = Some(d)

---------------------------------------------------------------------------
(* Spawn failure *)

\* C11: when the spawn fails, send publishes error (after thinking) and
\* returns a failure; the session stays registered as it was, no child handle
\* is stored and no reader is started; a later send that gets to the spawn
\* publishes thinking again.
C11_SpawnFailure ==
    [][\A id \in AgentIds :
         /\ (Present(id) /\ send_message(id, "spawn_fail"))
            => /\ last'.res = "err"
               /\ NewEvents = <<AgentStatusEv(id, "thinking"), AgentStatusEv(id, "error")>>
               /\ agents' = agents
               /\ children'[Len(children) + 1].rd = "done"
               /\ children'[Len(children) + 1].proc = "failed"
         /\ (/\ Present(id)
             /\ \E k \in ChildrenOf(id) : children[k].proc = "failed"
             /\ \E env \in {"ok", "spawn_fail"} : send_message(id, env))
            => NewEvents[1] = AgentStatusEv(id, "thinking")]_vars

\* C11 witness: a session whose spawn failed has sent again and has a child
C11_Witness ==
    \E id \in DOMAIN agents : \E k, c \in ChildrenOf(id) :
        /\ k < c
        /\ children[k].proc = "failed"
        /\ children[c].proc = "running"
        /\ agents[id].current_child = Some(c)
        /\ bus[children[k].at + 1] = AgentStatusEv(id, "error")
        /\ bus[children[c].at] = AgentStatusEv(id, "thinking")

---------------------------------------------------------------------------
(* The subscriber gateway, main.rs 587-679, over the two broadcast         *)
(* channels.  A channel is followed by position: the n-th event sent on it  *)
(* has position n, published[b].tail is the position of the newest one and  *)
(* gateway.next[b] the position the receiver has consumed or skipped up to. *)

RECURSIVE PowerOfTwoFrom(_, _)
PowerOfTwoFrom(p, n) == IF p >= n THEN p ELSE PowerOfTwoFrom(2 * p, n)

\* tokio::sync::broadcast::channel(capacity) allocates
\* capacity.next_power_of_two() slots
BufferSize == PowerOfTwoFrom(1, Capacity)

\* a channel that never overwrites a slot a receiver still has to read
OverwrittenNever(next, tail) == FALSE

\* the slot of the receiver's next event has been reused by a later send:
\* the receiver is more than the buffer behind
Overwritten(next, tail) == tail - next > BufferSize

\* a receiver that hands out the newest event
RecvPosNewest(next, tail) == tail

\* the position of the event recv() returns when the receiver has not lagged
RecvPos(next, tail) == next + 1

\* a subscription that starts at the oldest event
SubscribedAtStart(tail) == 0

\* Sender::subscribe: the new receiver starts behind the newest event sent
Subscribed(tail) == tail

\* the numbers of events producers send in a row between two steps of the
\* gateway: one, as many as the channel was asked to hold, a full buffer
Bursts == {1, Capacity, BufferSize}

\* broadcast_tx.send / terminal_broadcast_tx.send, n times in a row.  The
\* send takes the channel's lock, writes the slot at tail and returns; it
\* waits for no receiver.
Publish(b, n) ==
    /\ published[b].sends < MaxSends
    /\ published' = [published EXCEPT ![b].tail = @ + n, ![b].sends = @ + 1]
    /\ UNCHANGED <<agentVars, termVars, fileVars, lockVars, inputVars, deskVars, last, gateway, wsOut, wsIn>>

\* ws_handler -> handle_socket, main.rs 587-598 and 623: split the socket,
\* subscribe to both channels, spawn the two tasks.  start keeps how many
\* events had been sent on each channel when the gateway subscribed; next is
\* the position subscribe() gives the new receiver.
Connect ==
    /\ gateway.st = "none"
    /\ gateway' = [gateway EXCEPT
                     !.st = "open",
                     !.start = [b \in Buses |-> published[b].tail],
                     !.next = [b \in Buses |-> Subscribed(published[b].tail)],
                     !.send_task = "running",
                     !.recv_task = "running",
                     !.socket = "open"]
    /\ UNCHANGED <<agentVars, termVars, fileVars, lockVars, inputVars, deskVars, last, published, wsOut, wsIn>>

\* send_task, main.rs 599-619: one branch of the select! completes.  recv()
\* on channel b returns Err(Lagged) when the receiver's slot was overwritten
\* and moves the receiver to the oldest event kept; the pattern Ok(..) then
\* fails, which disables the branch for this select!, and a select! with
\* every branch disabled and no else branch panics.  Otherwise the event is
\* sent to the client: sendOk is the result of sender.send(..).await, which
\* fails once the connection is closed.
SendTaskBranch(b, sendOk) ==
    /\ gateway.send_task = "running"
    /\ b \notin gateway.disabled
    /\ published[b].tail > gateway.next[b]
    /\ IF Overwritten(gateway.next[b], published[b].tail)
       THEN /\ sendOk
            /\ gateway' = [gateway EXCEPT
                             !.next[b] = published[b].tail - BufferSize,
                             !.lags = @ + 1,
                             !.disabled = @ \cup {b},
                             !.send_task = IF gateway.disabled \cup {b} = Buses
                                           THEN "panicked" ELSE @]
            /\ wsOut' = wsOut
       ELSE /\ sendOk => gateway.socket = "open" /\ Len(wsOut) < MaxForwards
            /\ gateway' = [gateway EXCEPT
                             !.next[b] = @ + 1,
                             !.disabled = {},
                             !.send_task = IF sendOk THEN @ ELSE "done",
                             !.socket = IF sendOk THEN @ ELSE "closed"]
            /\ wsOut' = IF sendOk
                        THEN Append(wsOut,
                                    [bus |-> b,
                                     pos |-> RecvPos(gateway.next[b], published[b].tail),
                                     st |-> gateway.st,
                                     recv_task |-> gateway.recv_task])
                        ELSE wsOut
    /\ UNCHANGED <<agentVars, termVars, fileVars, lockVars, inputVars, deskVars, last, published, wsIn>>

\* recv_task, main.rs 623-670: one item of receiver.next().  "input" is a
\* text frame that parses as terminal-input or terminal-resize and is routed
\* to the terminal manager; "close" is a Close frame; "end" is None or
\* Some(Err(..)), the connection is gone.
RecvTaskFrame(frame) ==
    /\ gateway.recv_task = "running"
    /\ IF frame = "input"
       THEN /\ gateway.socket = "open"
            /\ Len(wsIn) < MaxInbound
            /\ wsIn' = Append(wsIn, [st |-> gateway.st, send_task |-> gateway.send_task])
            /\ gateway' = gateway
       ELSE /\ frame = "close" => gateway.socket = "open"
            /\ wsIn' = wsIn
            /\ gateway' = [gateway EXCEPT !.recv_task = "done", !.socket = "closed"]
    /\ UNCHANGED <<agentVars, termVars, fileVars, lockVars, inputVars, deskVars, last, published, wsOut>>

\* handle_socket, main.rs 672-679: the select! over the two JoinHandles
\* completes when one task has finished, and handle_socket returns.  The
\* JoinHandles are dropped, which leaves the other task running.
HandlerReturn ==
    /\ gateway.st = "open"
    /\ gateway.send_task # "running" \/ gateway.recv_task # "running"
    /\ gateway' = [gateway EXCEPT !.st = "returned"]
    /\ UNCHANGED <<agentVars, termVars, fileVars, lockVars, inputVars, deskVars, last, published, wsOut, wsIn>>

NextGateway ==
    \/ \E b \in Buses, n \in Bursts : Publish(b, n)
    \/ Connect
    \/ \E b \in Buses, sendOk \in BOOLEAN : SendTaskBranch(b, sendOk)
    \/ \E frame \in {"input", "close", "end"} : RecvTaskFrame(frame)
    \/ HandlerReturn

SpecGateway == Init /\ [][NextGateway]_vars

---------------------------------------------------------------------------
(* Properties of the channels and the gateway *)

\* the events sent on channel b that the gateway's receiver has not consumed
Backlog(b) == published[b].tail - gateway.next[b]

\* C12 as stated: with 1000 undelivered events buffered for a subscriber,
\* the next send completes and the subscriber has lost its oldest event (its
\* next recv reports the lag).
C12_LagAtCapacity ==
    [][\A b \in Buses :
         (gateway.st # "none" /\ Backlog(b) = Capacity /\ Publish(b, 1))
         => /\ published'[b].tail = published[b].tail + 1
            /\ Backlog(b)' > BufferSize]_vars

\* C12: a send completes whatever the subscriber's backlog; when the
\* subscriber already has a full buffer (1024 events, the 1000 asked for
\* rounded up to a power of two) undelivered, the next send makes it lose the
\* oldest one, and its next recv reports the lag and skips to the oldest
\* event kept; with a smaller backlog nothing is lost.
C12_LagAtFullBuffer ==
    [][\A b \in Buses :
         /\ (gateway.st # "none" /\ Backlog(b) = 1024 /\ Publish(b, 1))
            => /\ published'[b].tail = published[b].tail + 1
               /\ gateway' = gateway
         /\ (Backlog(b) > 1024 /\ SendTaskBranch(b, TRUE))
            => /\ gateway'.lags = gateway.lags + 1
               /\ gateway'.next[b] = published[b].tail - 1024
               /\ wsOut' = wsOut
         /\ (Backlog(b) <= 1024 /\ SendTaskBranch(b, TRUE))
            => /\ gateway'.lags = gateway.lags
               /\ gateway'.next[b] = gateway.next[b] + 1]_vars

\* C12 witness: the gateway's receiver was a full buffer behind when one more
\* event was sent, and has seen the lag
C12_Witness ==
    \E b \in Buses :
        /\ gateway.lags = 1
        /\ gateway.start[b] = 0
        /\ published[b].tail = 1025
        /\ gateway.next[b] = 1

\* C13: a lag does not stall or end the outbound task: once it has seen a
\* lag, and while the client's connection is open, the task is running and
\* takes the events waiting on a channel without needing an event on the
\* other channel (a channel with events waiting, while the other has none, is
\* not one whose select! branch is disabled).
C13_NoStallAfterLag ==
    (gateway.lags > 0 /\ gateway.socket = "open")
    => /\ gateway.send_task = "running"
       /\ \A b \in Buses :
            (Backlog(b) > 0 /\ \A o \in Buses \ {b} : Backlog(o) = 0)
            => b \notin gateway.disabled

\* the frame with the event at position p of channel b is the i-th frame
\* the client was sent
SentAt(i, b, p) == i \in DOMAIN wsOut /\ wsOut[i].bus = b /\ wsOut[i].pos = p

\* C14 as stated: of two events e1, e2 sent on a channel in this order after
\* the gateway subscribed, the client gets e1 before e2 or neither: a client
\* that has got e2 has got e1 before it.
C14_BothOrNeither ==
    \A j \in DOMAIN wsOut :
        \A p1 \in (gateway.start[wsOut[j].bus] + 1)..(wsOut[j].pos - 1) :
            \E i \in 1..(j - 1) : SentAt(i, wsOut[j].bus, p1)

\* C14: the events of a channel reach the client in the order they were
\* sent: of two frames with events of the same channel, the earlier frame
\* has the earlier event (a client that lagged may get one of two events
\* without the other, never the two in the opposite order).
C14_FifoPerBus ==
    \A i, j \in DOMAIN wsOut :
        (i < j /\ wsOut[i].bus = wsOut[j].bus) => wsOut[i].pos < wsOut[j].pos

\* C14 witness: the client has got two events of one channel, the second one
\* sent after the first had been forwarded
C14_Witness ==
    \E b \in Buses :
        /\ Len(wsOut) = 2
        /\ SentAt(1, b, gateway.start[b] + 1)
        /\ SentAt(2, b, gateway.start[b] + 2)

\* C15: no replay: every event the gateway forwards was sent on its channel
\* after the gateway subscribed; none of the events sent before the
\* connection is forwarded.
C15_NoReplay ==
    \A j \in DOMAIN wsOut : wsOut[j].pos > gateway.start[wsOut[j].bus]

\* C15 witness: events had been sent on a channel before the gateway
\* subscribed, and the gateway has forwarded an event of that channel
C15_Witness ==
    \E j \in DOMAIN wsOut :
        /\ gateway.start[wsOut[j].bus] > 0
        /\ wsOut[j].pos = gateway.start[wsOut[j].bus] + 1

---------------------------------------------------------------------------
(* Properties of the terminal registry and its reader tasks *)

\* the reader tasks that have not ended and publish under terminal id tid
AliveReaders(tid) ==
    {r \in DOMAIN ptys : ptys[r].tid = tid /\ ptys[r].pc # "done"}

\* C16: every terminal session in the registry has exactly one alive reader
\* task publishing under its id: never none, never two.
C16_OneAliveReader ==
    \A tid \in DOMAIN terminals : Cardinality(AliveReaders(tid)) = 1

\* the TerminalSession of PTY r leaves the registry in this step, removed by
\* kill_terminal or replaced by an insert under its id
SessionDropped(r) ==
    /\ r \in DOMAIN ptys
    /\ ptys[r].session = "registered"
    /\ ptys'[r].session # "registered"

\* C17: a terminal session that is killed, or dropped because it was removed
\* or replaced, has its reader signalled through the kill channel and its
\* shell terminated (stated for a host on which killing the shell succeeds).
C17_DropSignalsAndKills ==
    [][\A tid \in TermIds :
         (create_terminal(tid, TRUE, TRUE) \/ kill_terminal(tid, TRUE))
         => \A r \in 1..MaxTerms :
                SessionDropped(r)
                => /\ ptys'[r].signal = 1
                   /\ ptys'[r].shell # "running"]_vars

---------------------------------------------------------------------------
(* Properties of the gateway's two halves *)

\* C18: when one half of a gateway has finished, the gateway is over: the
\* other half forwards no further event to the client and routes no further
\* inbound frame to a terminal.  Every frame was forwarded while the inbound
\* half was running, and every inbound frame was routed while the outbound
\* half was running.
C18_GatewayEndsWithEitherHalf ==
    /\ \A j \in DOMAIN wsOut : wsOut[j].recv_task = "running"
    /\ \A i \in DOMAIN wsIn : wsIn[i].send_task = "running"

---------------------------------------------------------------------------
(* File API: files.rs read_file and write_file behind the handlers of      *)
(* main.rs 239-283.  Only files hold content, at the place where they      *)
(* really are, so the domain of fsys holds canonical locations.            *)

\* the request paths a client sends: relative to the workspace or absolute
Rel(comps) == [abs |-> FALSE, comps |-> comps]
Abs(comps) == [abs |-> TRUE, comps |-> comps]
Requests ==
    {Rel(<<"a.txt">>), Rel(<<"sub", "b.txt">>), Rel(<<"new", "c.txt">>),
     Rel(<<"missing.txt">>), Rel(<<"sub">>),
     Rel(<<"..", "out", "secret">>), Abs(<<"out", "secret">>),
     Rel(<<"..", "out", "made", "d.txt">>),
     Rel(<<"link">>), Rel(<<"dlink", "secret">>)}
Contents == {"new"}

\* the symlinks an agent working in the workspace may leave there: one to a
\* file outside the workspace, one to a directory outside it
Links ==
    {[name |-> "link", target |-> Append(OutsideDir, "secret")],
     [name |-> "dlink", target |-> OutsideDir]}

\* PathBuf::join, files.rs 96 and 120: an absolute argument replaces the base
Join(base, req) == IF req.abs THEN req.comps ELSE base \o req.comps

\* Path::parent, files.rs 129: the path without its last component
Parent(p) == IF p = <<>> THEN None ELSE Some(SubSeq(p, 1, Len(p) - 1))

\* Path::starts_with, files.rs 106 and 137: base is a prefix, component-wise
StartsWith(p, base) ==
    Len(p) >= Len(base) /\ SubSeq(p, 1, Len(base)) = base

\* path resolution as the kernel does it, from directory cur along the
\* components rest: ".." goes to the parent of the directory reached, a
\* symlink is replaced by its (absolute) target.  ok: the path names an
\* existing node, at path; otherwise path is where the lookup failed and
\* rest what was left to look up.
RECURSIVE Resolve(_, _, _)
Resolve(f, cur, rest) ==
    IF rest = <<>>
    THEN [ok |-> TRUE, path |-> cur, rest |-> <<>>]
    ELSE LET c == Head(rest)
             t == Tail(rest)
             nxt == Append(cur, c)
         IN  IF c = ".."
             THEN Resolve(f, IF cur = <<>> THEN <<>>
                             ELSE SubSeq(cur, 1, Len(cur) - 1), t)
             ELSE IF nxt \notin DOMAIN f
             THEN [ok |-> FALSE, path |-> nxt, rest |-> t]
             ELSE IF f[nxt].kind = "link"
             THEN Resolve(f, <<>>, f[nxt].target \o t)
             ELSE IF f[nxt].kind = "file" /\ t # <<>>
             THEN [ok |-> FALSE, path |-> nxt, rest |-> t]
             ELSE Resolve(f, nxt, t)

\* Path::canonicalize of an absolute path: Err when the path does not exist
Canonicalize(f, p) == Resolve(f, <<>>, p)

\* fs::create_dir_all, files.rs 130: every prefix of p that does not exist
\* is created as a directory, from the root down; fails on a prefix that is
\* not a directory.  k: the prefix being looked at.
RECURSIVE CreateDirAll(_, _, _)
CreateDirAll(f, p, k) ==
    IF k > Len(p)
    THEN [ok |-> TRUE, fs |-> f]
    ELSE LET r == Resolve(f, <<>>, SubSeq(p, 1, k))
         IN  IF r.ok
             THEN IF f[r.path].kind = "dir"
                  THEN CreateDirAll(f, p, k + 1)
                  ELSE [ok |-> FALSE, fs |-> f]
             ELSE IF r.path \in DOMAIN f \/ r.rest # <<>>
             THEN [ok |-> FALSE, fs |-> f]
             ELSE CreateDirAll((r.path :> Dir) @@ f, p, k + 1)

\* fs::write, files.rs 142: open with create and truncate, following
\* symlinks; the file is written where the path resolves to, or created in
\* the directory its last component is looked up in
FsWrite(f, p, content) ==
    LET r == Resolve(f, <<>>, p)
    IN  IF r.ok
        THEN IF f[r.path].kind = "file"
             THEN [ok |-> TRUE, fs |-> [f EXCEPT ![r.path] = File(content)]]
             ELSE [ok |-> FALSE, fs |-> f]
        ELSE IF r.path \notin DOMAIN f /\ r.rest = <<>>
        THEN [ok |-> TRUE, fs |-> (r.path :> File(content)) @@ f]
        ELSE [ok |-> FALSE, fs |-> f]

\* files::read_file, files.rs 92-114
files_read_file(f, workspace_dir, req) ==
    LET file_path == Join(workspace_dir, req)
        canonical_workspace == Canonicalize(f, workspace_dir)
        canonical_file == Canonicalize(f, file_path)
    IN  IF ~canonical_workspace.ok THEN [ok |-> FALSE, err |-> "Invalid workspace directory"]
        ELSE IF ~canonical_file.ok THEN [ok |-> FALSE, err |-> "File not found"]
        ELSE IF ~StartsWith(canonical_file.path, canonical_workspace.path)
        THEN [ok |-> FALSE, err |-> "Access denied"]
        ELSE IF f[canonical_file.path].kind # "file"
        THEN [ok |-> FALSE, err |-> "io"]
        ELSE [ok |-> TRUE, err |-> ""]

\* files::write_file, files.rs 116-146
files_write_file(f, workspace_dir, req, content) ==
    LET file_path == Join(workspace_dir, req)
        canonical_workspace == Canonicalize(f, workspace_dir)
        parent == Parent(file_path)
        made == IF IsSome(parent) THEN CreateDirAll(f, Unwrap(parent), 1)
                ELSE [ok |-> TRUE, fs |-> f]
        canonical_parent == Canonicalize(made.fs, Unwrap(parent))
        w == FsWrite(made.fs, file_path, content)
    IN  IF ~canonical_workspace.ok
        THEN [ok |-> FALSE, err |-> "Invalid workspace directory", fs |-> f]
        ELSE IF ~made.ok
        THEN [ok |-> FALSE, err |-> "Failed to create directory", fs |-> made.fs]
        ELSE IF IsSome(parent) /\ ~canonical_parent.ok
        THEN [ok |-> FALSE, err |-> "Invalid parent directory", fs |-> made.fs]
        ELSE IF IsSome(parent)
                /\ ~StartsWith(canonical_parent.path, canonical_workspace.path)
        THEN [ok |-> FALSE, err |-> "Access denied", fs |-> made.fs]
        ELSE [ok |-> w.ok, err |-> IF w.ok THEN "" ELSE "io", fs |-> w.fs]

\* the status codes the handlers answer with
OK == 200
NOT_FOUND == 404
INTERNAL_SERVER_ERROR == 500

\* what a file handler answered
Answer(op, id, req, status, err) ==
    [op |-> op, id |-> id, res |-> IF status = OK THEN "ok" ELSE "err",
     req |-> req, status |-> status, err |-> err]

\* read_file handler, main.rs 239-260
read_file(id, req) ==
    /\ last' = IF ~Present(id)
               THEN Answer("read_file", id, req, NOT_FOUND, "Agent not found")
               ELSE LET r == files_read_file(fsys, WorkingDir, req)
                    IN  Answer("read_file", id, req,
                               IF r.ok THEN OK ELSE INTERNAL_SERVER_ERROR, r.err)
    /\ UNCHANGED <<agentVars, termVars, gwVars, fileVars, lockVars, inputVars, deskVars>>

\* write_file handler, main.rs 262-283
write_file(id, req, content) ==
    /\ IF ~Present(id)
       THEN /\ last' = Answer("write_file", id, req, NOT_FOUND, "Agent not found")
            /\ fsys' = fsys
       ELSE LET r == files_write_file(fsys, WorkingDir, req, content)
            IN  /\ last' = Answer("write_file", id, req,
                                  IF r.ok THEN OK ELSE INTERNAL_SERVER_ERROR, r.err)
                /\ fsys' = r.fs
    /\ UNCHANGED <<agentVars, termVars, gwVars, lockVars, inputVars, deskVars>>

\* an agent's CLI, working in the workspace, leaves a symlink there
Symlink(l) ==
    /\ Append(WorkingDir, l.name) \notin DOMAIN fsys
    /\ fsys' = (Append(WorkingDir, l.name) :> Link(l.target)) @@ fsys
    /\ UNCHANGED <<agentVars, termVars, gwVars, lockVars, inputVars, deskVars, last>>

NextFiles ==
    \/ \E id \in AgentIds, cli, killOk \in BOOLEAN : create_agent(id, cli, killOk)
    \/ \E id \in AgentIds, killOk, dropOk \in BOOLEAN : kill_agent(id, killOk, dropOk)
    \/ \E l \in Links : Symlink(l)
    \/ \E id \in AgentIds, req \in Requests : read_file(id, req)
    \/ \E id \in AgentIds, req \in Requests, content \in Contents :
            write_file(id, req, content)

SpecFiles == Init /\ [][NextFiles]_vars

\* the request's path leads to a place that exists and is outside the
\* workspace, in file system f
ResolvesOutside(f, req) ==
    LET c == Canonicalize(f, Join(WorkingDir, req))
    IN  c.ok /\ ~StartsWith(c.path, Canonicalize(f, WorkingDir).path)

\* the request's path leads to a place inside the workspace, in file system f
ResolvesInside(f, req) ==
    LET c == Canonicalize(f, Join(WorkingDir, req))
    IN  c.ok /\ StartsWith(c.path, Canonicalize(f, WorkingDir).path)

\* the files (canonical locations) that differ between file systems f and g
FilesChanged(f, g) ==
    {p \in DOMAIN g : g[p].kind = "file" /\ (p \notin DOMAIN f \/ f[p] # g[p])}

\* C19: a read or a write succeeds only for a path whose canonical location
\* is in the workspace, and a write that succeeds creates or modifies no file
\* whose canonical location is outside the workspace.
C19_ConfinedToWorkspace ==
    [][\A id \in AgentIds, req \in Requests :
         /\ (read_file(id, req) /\ last'.status = OK)
            => ResolvesInside(fsys, req)
         /\ \A content \in Contents :
              (write_file(id, req, content) /\ last'.status = OK)
              => /\ ResolvesInside(fsys', req)
                 /\ \A p \in FilesChanged(fsys, fsys') :
                        StartsWith(p, WorkingDir)]_vars

\* C20: a read or a write of a known agent whose path resolves outside the
\* workspace is answered with 403, which is neither the 404 of an unknown
\* agent nor the 500 of other I/O failures.
C20_OutsideIsForbidden ==
    [][\A id \in AgentIds, req \in Requests :
         (/\ Present(id)
          /\ ResolvesOutside(fsys, req)
          /\ \/ read_file(id, req)
             \/ \E content \in Contents : write_file(id, req, content))
         => last'.status = 403]_vars

---------------------------------------------------------------------------
(* Properties of the stream parser *)

\* the status last published for session id on the bus w, None when none was
LastStatus(id, w) ==
    LET f == StatusesIn(id, w)
    IN  IF f = <<>> THEN None ELSE Some(f[Len(f)])

\* the reader of child c has just handled line: the last message on the bus
\* is the line's output event, c's session is still the registered one, and
\* no other reader of the session has read anything
JustRead(c, line) ==
    /\ c \in DOMAIN children
    /\ ~children[c].orphan
    /\ children[c].nread > 0
    /\ \A k \in DOMAIN children \ {c} :
            children[k].agent = children[c].agent => children[k].nread = 0
    /\ bus # <<>>
    /\ bus[Len(bus)] = AgentOutputEv(children[c].agent, "stdout", line)

\* C21: parse idempotence: when the reader is fed a line it has just
\* handled, the session's stored conversation id and its last status are
\* after the second time what they were after the first; the second time
\* only publishes the line's status event and output event once more.  And
\* from every session state: what a line leaves in the session is what the
\* parser makes of the same line again.
C21_ParseIdempotent ==
    [][\A c \in 1..MaxChildren, line \in ParseLines :
         /\ (JustRead(c, line) /\ ReadLine(c, line))
            => LET id == children[c].agent
               IN  /\ agents'[id].session_id = agents[id].session_id
                   /\ LastStatus(id, bus') = LastStatus(id, bus)
                   /\ NewEvents = LineEvents(id, line)
                   /\ SubSeq(bus, Len(bus) - Len(NewEvents) + 1, Len(bus))
                        = NewEvents
         /\ (ReadLine(c, line) /\ ~children[c].orphan)
            => LET id == children[c].agent
               IN  /\ line.kind = "json"
                      => /\ agents'[id].session_id
                              = SidAfter(agents[id].session_id, line)
                         /\ SidAfter(agents'[id].session_id, line)
                              = agents'[id].session_id
                   /\ line.kind # "json"
                      => agents'[id].session_id = agents[id].session_id
                   /\ LastStatus(id, bus' \o LineEvents(id, line))
                        = LastStatus(id, bus')]_vars

\* C21 witness: a result frame with a session id was fed twice in a row to
\* the reader of a session, which has stored the frame's id
C21_Witness ==
    \E c \in DOMAIN children :
        LET line == Frame(Some("result"), Some("S2"))
            id == children[c].agent
        IN  /\ JustRead(c, line)
            /\ children[c].nread = 2
            /\ Len(bus) >= 4
            /\ SubSeq(bus, Len(bus) - 3, Len(bus))
                 = LineEvents(id, line) \o LineEvents(id, line)
            /\ agents[id].session_id = Some("S2")

---------------------------------------------------------------------------
(* Properties of the registries' listings *)

\* the listing q holds id exactly once
ListedOnce(q, id) == Cardinality({i \in DOMAIN q : q[i] = id}) = 1

\* C22: an id that a create has returned is in every listing, exactly once,
\* until a kill of it succeeds, and in none after that: a listing holds the
\* registered ids once each and nothing else, an id enters a registry only
\* by a create that returns it, leaves it only by a kill that succeeds, and
\* is in the registry after the one and not after the other.
C22_ListedUntilKilled ==
    [][/\ last'.op = "list_agents"
          => /\ \A id \in DOMAIN agents : ListedOnce(last'.ids, id)
             /\ \A i \in DOMAIN last'.ids : last'.ids[i] \in DOMAIN agents
       /\ last'.op = "list_terminals"
          => /\ \A id \in DOMAIN terminals : ListedOnce(last'.ids, id)
             /\ \A i \in DOMAIN last'.ids : last'.ids[i] \in DOMAIN terminals
       /\ \A id \in AgentIds :
            /\ (id \notin DOMAIN agents /\ id \in DOMAIN agents')
               => last' = Call("create_agent", id, "ok")
            /\ (id \in DOMAIN agents /\ id \notin DOMAIN agents')
               => last' = Call("kill_agent", id, "ok")
            /\ (last' # last /\ last' = Call("create_agent", id, "ok"))
               => id \in DOMAIN agents'
            /\ (last' # last /\ last' = Call("kill_agent", id, "ok"))
               => id \notin DOMAIN agents'
       /\ \A id \in TermIds :
            /\ (id \notin DOMAIN terminals /\ id \in DOMAIN terminals')
               => last' = Call("create_terminal", id, "ok")
            /\ (id \in DOMAIN terminals /\ id \notin DOMAIN terminals')
               => last' = Call("kill_terminal", id, "ok")
            /\ (last' # last /\ last' = Call("create_terminal", id, "ok"))
               => id \in DOMAIN terminals'
            /\ (last' # last /\ last' = Call("kill_terminal", id, "ok"))
               => id \notin DOMAIN terminals']_vars

---------------------------------------------------------------------------
(* The registry locks: AppState.agent_manager and AppState.terminal_manager *)
(* are tokio RwLocks (main.rs 49-55).  Each handler is followed from the    *)
(* point where it asks for its guard to the point where the guard is        *)
(* dropped.                                                                 *)

\* per handler: the registry whose lock it takes, read() or write(), what it
\* does to a subprocess while it holds the guard, and whether it goes on to
\* file I/O after the guard is dropped
Handler(reg, mode, io, file) == [reg |-> reg, mode |-> mode, io |-> io, file |-> file]
Handlers ==
    [create_agent |-> Handler("agent_manager", "write", "which", FALSE),
     list_agents |-> Handler("agent_manager", "read", "none", FALSE),
     kill_agent |-> Handler("agent_manager", "write", "kill", FALSE),
     update_agent_settings |-> Handler("agent_manager", "write", "none", FALSE),
     send_message |-> Handler("agent_manager", "read", "spawn", FALSE),
     stop_agent |-> Handler("agent_manager", "read", "kill", FALSE),
     read_file |-> Handler("agent_manager", "read", "none", TRUE),
     write_file |-> Handler("agent_manager", "read", "none", TRUE),
     create_terminal |-> Handler("terminal_manager", "write", "spawn", FALSE),
     list_terminals |-> Handler("terminal_manager", "read", "none", FALSE),
     kill_terminal |-> Handler("terminal_manager", "write", "kill", FALSE),
     terminal_input |-> Handler("terminal_manager", "read", "pty_write", FALSE),
     terminal_resize |-> Handler("terminal_manager", "read", "pty_resize", FALSE)]
Ops == DOMAIN Handlers

\* task t holds a guard of its registry
Holds(t) == rw.tasks[t].pc \in {"holding", "io", "after"}

\* the tasks that hold a guard of registry r taken with read() or write()
Holders(r, mode) ==
    {t \in Tasks : /\ Holds(t)
                   /\ Handlers[rw.tasks[t].op].reg = r
                   /\ Handlers[rw.tasks[t].op].mode = mode}

\* a lock that hands out a write guard whatever guards are held
CanAcquireAlways(r, mode) == TRUE

\* RwLock: a read guard while no write guard is held, a write guard while
\* no guard is held
CanAcquire(r, mode) ==
    /\ Holders(r, "write") = {}
    /\ mode = "write" => Holders(r, "read") = {}

\* a handler starts and asks for its guard: manager.read().await or
\* manager.write().await; requests are served in the order they were made
Request(t, op) ==
    /\ rw.tasks[t].pc = "idle"
    /\ rw' = [rw EXCEPT !.tasks[t] = [op |-> op, pc |-> "waiting"],
                        !.queue[Handlers[op].reg] = Append(@, t)]
    /\ UNCHANGED <<agentVars, termVars, gwVars, fileVars, inputVars, deskVars, last>>

\* the guard is handed to the task at the head of the queue
Grant(t) ==
    LET h == Handlers[rw.tasks[t].op]
    IN  /\ rw.tasks[t].pc = "waiting"
        /\ rw.queue[h.reg] # <<>>
        /\ Head(rw.queue[h.reg]) = t
        /\ CanAcquire(h.reg, h.mode)
        /\ rw' = [rw EXCEPT !.tasks[t].pc = "holding",
                            !.queue[h.reg] = Tail(@)]
        /\ UNCHANGED <<agentVars, termVars, gwVars, fileVars, inputVars, deskVars, last>>

\* the handler's work on a subprocess, between taking and dropping the guard:
\* Command::spawn in send_message (main.rs 437, agents.rs 178), terminal.write
\* and terminal.resize in recv_task (main.rs 634, 652), spawn_command in
\* create_terminal (pty.rs 127-130), `which` in create_agent (agents.rs 57),
\* Child::kill in the kills and in stop
StartIo(t) ==
    /\ rw.tasks[t].pc = "holding"
    /\ Handlers[rw.tasks[t].op].io # "none"
    /\ rw' = [rw EXCEPT !.tasks[t].pc = "io"]
    /\ UNCHANGED <<agentVars, termVars, gwVars, fileVars, inputVars, deskVars, last>>

EndIo(t) ==
    /\ rw.tasks[t].pc = "io"
    /\ rw' = [rw EXCEPT !.tasks[t].pc = "after"]
    /\ UNCHANGED <<agentVars, termVars, gwVars, fileVars, inputVars, deskVars, last>>

\* the guard is dropped: at the end of the handler or of the match arm, in
\* the file handlers by drop(manager) before the file is touched (main.rs 254)
Release(t) ==
    LET h == Handlers[rw.tasks[t].op]
    IN  /\ \/ rw.tasks[t].pc = "after"
           \/ rw.tasks[t].pc = "holding" /\ h.io = "none"
        /\ rw' = [rw EXCEPT !.tasks[t] =
                     IF h.file THEN [@ EXCEPT !.pc = "fileio"]
                     ELSE [op |-> "none", pc |-> "idle"]]
        /\ UNCHANGED <<agentVars, termVars, gwVars, fileVars, inputVars, deskVars, last>>

\* files::read_file / files::write_file, after the guard was dropped
FileIo(t) ==
    /\ rw.tasks[t].pc = "fileio"
    /\ rw' = [rw EXCEPT !.tasks[t] = [op |-> "none", pc |-> "idle"]]
    /\ UNCHANGED <<agentVars, termVars, gwVars, fileVars, inputVars, deskVars, last>>

NextLocks ==
    \/ \E t \in Tasks, op \in Ops : Request(t, op)
    \/ \E t \in Tasks : Grant(t)
    \/ \E t \in Tasks : StartIo(t)
    \/ \E t \in Tasks : EndIo(t)
    \/ \E t \in Tasks : Release(t)
    \/ \E t \in Tasks : FileIo(t)

SpecLocks == Init /\ [][NextLocks]_vars

\* C23: no task holds a registry lock while it performs subprocess I/O: the
\* send handler does not hold its guard while the CLI child is spawned, and
\* the inbound task does not hold its guard while it writes to a PTY or
\* resizes it.
C23_NoLockAcrossIo ==
    \A t \in Tasks :
        (/\ rw.tasks[t].pc = "io"
         /\ rw.tasks[t].op \in {"send_message", "terminal_input", "terminal_resize"})
        => ~Holds(t)

---------------------------------------------------------------------------
(* Inbound routing in detail: the recv_task of each connection (main.rs     *)
(* 623-670) and TerminalSession::write / resize (pty.rs 27-56).             *)

\* the kinds of item receiver.next() yields: a text frame that parses as
\* terminal-input or as terminal-resize, a text frame that does not parse as
\* a WsClientMessage ("junk"), a binary, ping or pong frame ("other"), a
\* close frame, and None or Some(Err(..)) ("end")
FrameKinds == {"input", "resize", "junk", "other", "close", "end"}

\* the terminal ids frames name: the ids of terminals, and one nobody created
FrameTids == TermIds \cup {"tX"}

\* an inbound task that a frame it cannot parse ends
EndsHalfOnJunk(kind) == kind \in {"close", "end", "junk"}

\* main.rs 624-626: the loop ends on a close frame and when the stream ends
EndsHalf(kind) == kind \in {"close", "end"}

\* a writer mutex that is never taken
WriterFreeAlways(r) == TRUE

\* self.writer.lock().await, pty.rs 28: the mutex of PTY r's writer is free
WriterFree(r) == inbound.writer[r] = 0

\* handle_socket spawns the inbound task of connection c, main.rs 623
Accept(c) ==
    /\ inbound.conns[c].task = "none"
    /\ inbound' = [inbound EXCEPT !.conns[c].task = "running"]
    /\ UNCHANGED <<agentVars, termVars, gwVars, fileVars, lockVars, deskVars, last>>

\* one item of receiver.next() in recv_task, up to the point where a
\* terminal-input frame waits for the writer mutex.  tid: the terminal the
\* frame names; ok: whether master.resize succeeds.  A terminal-resize frame
\* is applied in this step (pty.rs 38-56).
InboundFrame(c, kind, tid, ok) ==
    LET cn == inbound.conns[c]
        found == kind \in {"input", "resize"} /\ TPresent(tid)
    IN  /\ cn.task = "running"
        /\ cn.pc = "next"
        /\ IF EndsHalf(kind)
           THEN inbound' = [inbound EXCEPT !.conns[c].task = "done",
                                           !.conns[c].kind = kind]
           ELSE /\ cn.n < MaxFrames
                /\ IF kind = "input" /\ found
                   THEN inbound' = [inbound EXCEPT
                                      !.conns[c].kind = kind,
                                      !.conns[c].pc = "lock",
                                      !.conns[c].pty = terminals[tid].pty,
                                      !.conns[c].k = 0]
                   ELSE IF kind = "resize" /\ found /\ ok
                   THEN inbound' = [inbound EXCEPT
                                      !.conns[c].kind = kind,
                                      !.conns[c].n = @ + 1,
                                      !.sizes[terminals[tid].pty] = <<c, cn.n + 1>>]
                   ELSE inbound' = [inbound EXCEPT
                                      !.conns[c].kind = kind,
                                      !.conns[c].n = @ + 1]
        /\ UNCHANGED <<agentVars, termVars, gwVars, fileVars, lockVars, deskVars, last>>

\* writer.lock().await completes, pty.rs 28
WriterLock(c) ==
    LET cn == inbound.conns[c]
    IN  /\ cn.task = "running"
        /\ cn.pc = "lock"
        /\ WriterFree(cn.pty)
        /\ inbound' = [inbound EXCEPT !.conns[c].pc = "write",
                                      !.writer[cn.pty] = c]
        /\ UNCHANGED <<agentVars, termVars, gwVars, fileVars, lockVars, deskVars, last>>

\* write_all and flush, pty.rs 29-35: one write call of write_all puts the
\* next piece of the frame into the PTY; after the last piece the writer is
\* flushed and the mutex guard dropped.  ok = FALSE: the call fails, the
\* error is returned (and logged, main.rs 634-640) and the guard dropped.
WriteAll(c, ok) ==
    LET cn == inbound.conns[c]
        piece == [pty |-> cn.pty, conn |-> c, n |-> cn.n + 1, k |-> cn.k + 1]
        last_piece == cn.k + 1 = FrameLen
    IN  /\ cn.task = "running"
        /\ cn.pc = "write"
        /\ IF ok /\ ~last_piece
           THEN inbound' = [inbound EXCEPT !.conns[c].k = @ + 1,
                                           !.written = Append(@, piece)]
           ELSE inbound' = [inbound EXCEPT
                              !.conns[c].pc = "next",
                              !.conns[c].n = @ + 1,
                              !.conns[c].k = 0,
                              !.conns[c].pty = 0,
                              !.writer[cn.pty] = 0,
                              !.written = IF ok THEN Append(@, piece) ELSE @]
        /\ UNCHANGED <<agentVars, termVars, gwVars, fileVars, lockVars, deskVars, last>>

\* terminal handlers that do not wait for the inbound tasks' read guards
NoInboundGuardAlways == TRUE

\* no inbound task is between get_terminal and the end of its match arm,
\* where it holds the read guard of terminal_manager (main.rs 632-644)
NoInboundGuard == \A c \in Conns : inbound.conns[c].pc = "next"

\* the terminal handlers, which need terminal_manager.write() (main.rs 538,
\* 572), on a host where openpty, spawn and kill succeed
InboundTermCalls ==
    /\ NoInboundGuard
    /\ \/ \E tid \in TermIds : create_terminal(tid, TRUE, TRUE)
       \/ \E tid \in TermIds : kill_terminal(tid, TRUE)

NextInbound ==
    \/ InboundTermCalls
    \/ \E c \in Conns : Accept(c)
    \/ \E c \in Conns, kind \in FrameKinds, tid \in FrameTids, ok \in BOOLEAN :
            InboundFrame(c, kind, tid, ok)
    \/ \E c \in Conns : WriterLock(c)
    \/ \E c \in Conns, ok \in BOOLEAN : WriteAll(c, ok)

SpecInbound == Init /\ [][NextInbound]_vars

\* the pieces written to the PTYs, in the order they were written
Written == inbound.written

\* piece i and piece j belong to the same frame
SameFrame(i, j) ==
    /\ Written[i].conn = Written[j].conn
    /\ Written[i].n = Written[j].n

\* C25: the terminal-input frames of one connection are written in the order
\* they were received, each one's write over before the next one's begins:
\* of two pieces one connection wrote, the earlier piece is of an earlier
\* frame or an earlier piece of the same frame.  And a frame is written to
\* its terminal whole: between two pieces of a frame no piece of another
\* frame goes to the same PTY.
C25_InputOrderedPerConnection ==
    \A i, j \in DOMAIN Written :
        i < j
        => /\ Written[i].conn = Written[j].conn
              => \/ Written[i].n < Written[j].n
                 \/ Written[i].n = Written[j].n /\ Written[i].k < Written[j].k
           /\ SameFrame(i, j)
              => \A m \in i..j :
                    Written[m].pty = Written[i].pty => SameFrame(i, m)

\* C25 witness: two connections wrote to one PTY; the first wrote two whole
\* frames, frame 1 and then frame 2, and a frame of the second connection
\* went in between
C25_Witness ==
    /\ Len(Written) = 3 * FrameLen
    /\ \A i \in DOMAIN Written : Written[i].pty = Written[1].pty
    /\ Written[1].conn = 1 /\ Written[1].n = 1
    /\ Written[FrameLen + 1].conn = 2
    /\ Written[2 * FrameLen + 1].conn = 1 /\ Written[2 * FrameLen + 1].n = 2

\* a frame the inbound task has nothing to do for: not a recognized control
\* kind, or naming a terminal that is not in the registry, or a resize that
\* fails
Ignored(kind, tid, ok) ==
    \/ kind \in {"junk", "other"}
    \/ kind \in {"input", "resize"} /\ ~TPresent(tid)
    \/ kind = "resize" /\ ~ok

\* the step leaves the registries, the sessions and the PTYs' sizes as they
\* were, sends the client of connection c nothing, and leaves c's inbound
\* task running and ready for the next frame
NoEffect(c) ==
    /\ agents' = agents
    /\ terminals' = terminals
    /\ ptys' = ptys
    /\ inbound'.sizes = inbound.sizes
    /\ inbound'.conns[c].sent = inbound.conns[c].sent
    /\ inbound'.conns[c].task = "running"
    /\ inbound'.conns[c].pc = "next"

\* C30: an inbound frame that names an unknown terminal, whose write or
\* resize fails, or that is not a recognized control kind changes no registry
\* or session state, sends nothing back and leaves the inbound task running
\* for the following frames; only a close frame or the end of the stream
\* ends the inbound task.
C30_BadFramesIgnored ==
    [][\A c \in Conns :
         /\ \A kind \in FrameKinds, tid \in FrameTids, ok \in BOOLEAN :
              (Ignored(kind, tid, ok) /\ InboundFrame(c, kind, tid, ok))
              => NoEffect(c) /\ inbound'.written = inbound.written
         /\ WriteAll(c, FALSE) => NoEffect(c)
         /\ (inbound.conns[c].task = "running" /\ inbound'.conns[c].task # "running")
            => inbound'.conns[c].kind \in {"close", "end"}]_vars

\* C30 witness: a connection's inbound task has handled two frames, the last
\* one a frame it cannot parse, nothing was written to any PTY, and the task
\* is running
C30_Witness ==
    \E c \in Conns :
        /\ inbound.conns[c].n = 2
        /\ inbound.conns[c].kind = "junk"
        /\ inbound.conns[c].task = "running"
        /\ Written = <<>>

---------------------------------------------------------------------------
(* Properties of the settings *)

\* C26: update_settings changes exactly the fields that are supplied, and
\* changes neither the stored conversation id nor the child handle nor any
\* child: a running child keeps the settings it was spawned with; and a send
\* spawns its child with the settings the session has at that moment.
C26_SettingsForLaterSends ==
    [][\A id \in AgentIds :
         /\ \A u \in SettingsUpdates :
              (Present(id)
               /\ update_agent_settings(id, u.model, u.thinking_enabled, u.mcp_servers))
              => /\ agents'[id].model
                      = IF IsSome(u.model) THEN Unwrap(u.model) ELSE agents[id].model
                 /\ agents'[id].thinking_enabled
                      = IF IsSome(u.thinking_enabled) THEN Unwrap(u.thinking_enabled)
                        ELSE agents[id].thinking_enabled
                 /\ agents'[id].mcp_servers
                      = IF IsSome(u.mcp_servers) THEN Unwrap(u.mcp_servers)
                        ELSE agents[id].mcp_servers
                 /\ agents'[id].session_id = agents[id].session_id
                 /\ agents'[id].current_child = agents[id].current_child
                 /\ children' = children
         /\ (Present(id) /\ send_message(id, "ok"))
            => /\ Len(children') = Len(children) + 1
               /\ children'[Len(children')].settings = SpawnSettings(agents[id])
               /\ \A c \in DOMAIN children :
                      children'[c].settings = children[c].settings]_vars

\* C26 witness: a child spawned with the settings of create_agent is running,
\* the settings were then changed, and the next send has spawned a child with
\* the new model, thinking flag and server list
C26_Witness ==
    /\ Len(children) = 2
    /\ children[1].proc = "running"
    /\ children[1].agent = children[2].agent
    /\ children[1].settings = DefaultSettings
    /\ children[2].settings
         = [model |-> "opus", thinking_enabled |-> TRUE, mcp_servers |-> <<"m1">>]
    /\ ~children[1].orphan

---------------------------------------------------------------------------
(* The desktop host's session, src-tauri agents/process.rs: the same       *)
(* session as the server's, with std threads as readers and the host's     *)
(* event emitter as the sink.                                              *)

\* a line a desktop child writes: its text, and whether byte index
\* min(200, len) of the text is a character boundary (always so for text of
\* fewer than 200 bytes)
DesktopTexts ==
    {Text, Frame(Some("assistant"), None), Frame(Some("system"), Some("S1")),
     Frame(Some("result"), Some("S2"))}
DesktopLines == [text : DesktopTexts, boundary : BOOLEAN]

NewReaders == [out |-> "active", err |-> "active", nread |-> 0, nerr |-> 0]

RECURSIVE DesktopLinesRead(_)
DesktopLinesRead(rs) ==
    IF rs = <<>> THEN 0
    ELSE Head(rs).nread + Head(rs).nerr + DesktopLinesRead(Tail(rs))

\* process.rs 168-232: what one stdout line makes the reader emit
DesktopLineEvents(id, dline) ==
    LET st == IF dline.text.kind = "json" /\ IsSome(dline.text.type)
              THEN StatusOf(Unwrap(dline.text.type)) ELSE None
    IN  (IF IsSome(st) THEN <<AgentStatusEv(id, Unwrap(st))>> ELSE <<>>)
        \o <<AgentOutputEv(id, "stdout", dline)>>

\* AgentProcess::send_message, process.rs 74-281: thinking, spawn, and on
\* success the two reader threads
desktop_send_message(spawned) ==
    /\ desktop.sends < MaxSends
    /\ desktop' = [desktop EXCEPT
            !.sends = @ + 1,
            !.emitted = @ \o SendEvents(DesktopAgent, spawned),
            !.readers = IF spawned THEN Append(@, NewReaders) ELSE @]
    /\ UNCHANGED <<agentVars, termVars, gwVars, fileVars, lockVars, inputVars, last>>

\* one iteration of the stdout thread's `for line in reader.lines()`,
\* process.rs 164-235.  Line 168 slices the line at byte min(200, len) for
\* a log message: when that index is inside a character the slice panics
\* and the thread ends there, before the line is parsed or emitted.
DesktopReadLine(r, dline) ==
    /\ r \in DOMAIN desktop.readers
    /\ desktop.readers[r].out = "active"
    /\ DesktopLinesRead(desktop.readers) < MaxLines
    /\ IF ~dline.boundary
       THEN desktop' = [desktop EXCEPT !.readers[r].out = "panicked",
                                       !.readers[r].nread = @ + 1]
       ELSE desktop' = [desktop EXCEPT
               !.emitted = @ \o DesktopLineEvents(DesktopAgent, dline),
               !.readers[r].nread = @ + 1,
               !.session_id = IF dline.text.kind = "json"
                              THEN SidAfter(@, dline.text) ELSE @]
    /\ UNCHANGED <<agentVars, termVars, gwVars, fileVars, lockVars, inputVars, last>>

\* the stdout iteration ends, by end-of-stream or by a read error
\* (process.rs 234), and the thread emits its final idle (239-246)
DesktopReadEnd(r) ==
    /\ r \in DOMAIN desktop.readers
    /\ desktop.readers[r].out = "active"
    /\ desktop' = [desktop EXCEPT
            !.emitted = Append(@, AgentStatusEv(DesktopAgent, "idle")),
            !.readers[r].out = "done"]
    /\ UNCHANGED <<agentVars, termVars, gwVars, fileVars, lockVars, inputVars, last>>

\* one iteration of the stderr thread, process.rs 257-272: the line is
\* logged whole and emitted
DesktopReadStderr(r, dline) ==
    /\ r \in DOMAIN desktop.readers
    /\ desktop.readers[r].err = "active"
    /\ DesktopLinesRead(desktop.readers) < MaxLines
    /\ desktop' = [desktop EXCEPT
            !.emitted = Append(@, AgentOutputEv(DesktopAgent, "stderr", dline)),
            !.readers[r].nerr = @ + 1]
    /\ UNCHANGED <<agentVars, termVars, gwVars, fileVars, lockVars, inputVars, last>>

\* the stderr iteration ends, process.rs 270-274: nothing is emitted
DesktopStderrEnd(r) ==
    /\ r \in DOMAIN desktop.readers
    /\ desktop.readers[r].err = "active"
    /\ desktop' = [desktop EXCEPT !.readers[r].err = "done"]
    /\ UNCHANGED <<agentVars, termVars, gwVars, fileVars, lockVars, inputVars, last>>

NextDesktop ==
    \/ \E spawned \in BOOLEAN : desktop_send_message(spawned)
    \/ \E r \in 1..MaxChildren, dline \in DesktopLines : DesktopReadLine(r, dline)
    \/ \E r \in 1..MaxChildren : DesktopReadEnd(r)
    \/ \E r \in 1..MaxChildren, dline \in DesktopLines : DesktopReadStderr(r, dline)
    \/ \E r \in 1..MaxChildren : DesktopStderrEnd(r)

SpecDesktop == Init /\ [][NextDesktop]_vars

\* what a step makes the desktop host emit
DesktopNew == SubSeq(desktop'.emitted, Len(desktop.emitted) + 1, Len(desktop'.emitted))

---------------------------------------------------------------------------
(* Properties of the stdout and stderr readers *)

\* C27: every line the desktop stdout reader reads is emitted as exactly one
\* agent-output/stdout event that carries the line unchanged, whether or not
\* the line is JSON; a line that is not JSON causes no status event and no
\* change of the stored conversation id; and the reader goes on with the
\* next line.
C27_EveryLinePublished ==
    [][\A r \in 1..MaxChildren, dline \in DesktopLines :
         DesktopReadLine(r, dline)
         => /\ Len(DesktopNew) >= 1
            /\ DesktopNew[Len(DesktopNew)]
                 = AgentOutputEv(DesktopAgent, "stdout", dline)
            /\ \A i \in 1..(Len(DesktopNew) - 1) :
                  DesktopNew[i].type = "agent-status"
            /\ dline.text.kind # "json"
               => /\ Len(DesktopNew) = 1
                  /\ desktop'.session_id = desktop.session_id
            /\ desktop'.readers[r].out = "active"]_vars

\* C28: the status published for a parsed stdout frame is a function of its
\* type only: assistant, content_block_delta, content_block_start give
\* working; result, message_stop, content_block_stop, message_end give idle;
\* error gives error; any other type, and a frame without a string type,
\* gives no status event.  The status event, if any, comes right before the
\* line's output event.  A result frame also overwrites the stored
\* conversation id with the session id it carries.
C28_StatusByType ==
    [][\A c \in 1..MaxChildren, line \in ParseLines :
         ReadLine(c, line)
         => LET id == children[c].agent
                sts == StatusesIn(id, NewEvents)
                t == line.type
            IN  /\ t \in {Some("assistant"), Some("content_block_delta"),
                          Some("content_block_start")}
                   => sts = <<"working">>
                /\ t \in {Some("result"), Some("message_stop"),
                          Some("content_block_stop"), Some("message_end")}
                   => sts = <<"idle">>
                /\ t = Some("error") => sts = <<"error">>
                /\ t \notin {Some(k) : k \in KnownTypes} => sts = <<>>
                /\ NewEvents
                     = [i \in 1..Len(sts) |-> AgentStatusEv(id, sts[i])]
                       \o <<AgentOutputEv(id, "stdout", line)>>
                /\ (t = Some("result") /\ IsSome(line.session_id)
                      /\ ~children[c].orphan)
                   => agents'[id].session_id = line.session_id]_vars

\* C28 witness: a session whose first frame carried the id S1 has read a
\* result frame carrying S2: idle and the line were published, and S2 is
\* the stored id
C28_Witness ==
    \E c \in DOMAIN children :
        LET id == children[c].agent
            line == Frame(Some("result"), Some("S2"))
        IN  /\ ~children[c].orphan
            /\ Present(id)
            /\ seen[id].first = Some("S1")
            /\ agents[id].session_id = Some("S2")
            /\ Len(bus) >= 2
            /\ SubSeq(bus, Len(bus) - 1, Len(bus))
                 = <<AgentStatusEv(id, "idle"), AgentOutputEv(id, "stdout", line)>>

\* the stdout output events of session id among the messages w
StdoutIn(id, w) ==
    SelectSeq(w, LAMBDA e : /\ e.type = "agent-output"
                            /\ e.agent_id = id
                            /\ e.stream = "stdout")

\* C29: when the stdout reader's line iteration ends, by end-of-stream or by
\* a read error, the reader publishes one idle status and nothing else, and
\* it is done: every stdout output event is published by a reader that has
\* not finished, hence before that reader's final idle.  The stderr reader
\* publishes for each line one agent-output/stderr event carrying the line
\* and nothing else; it publishes nothing when it ends; and it leaves the
\* sessions and their stored conversation ids alone, also when the line is
\* a frame with a type and a session id.
C29_FinalIdleAndStderr ==
    [][\A c \in 1..MaxChildren :
         LET id == children[c].agent
         IN  /\ (ReadEof(c) \/ ReadLine(c, IoErr))
                => /\ NewEvents = <<AgentStatusEv(id, "idle")>>
                   /\ children'[c].rd = "done"
                   /\ children'[c].doneAt = Len(bus')
             /\ \A line \in StreamLines :
                  ReadLine(c, line) => children'[c].rd = "active"
             /\ (StdoutIn(StreamAgent, NewEvents) # <<>>)
                => \E k \in DOMAIN children :
                      /\ children[k].rd = "active"
                      /\ children'[k].nread = children[k].nread + 1
                      /\ children'[k].doneAt = 0
             /\ (c \in DOMAIN children /\ children[c].rd = "done")
                => children'[c] = [children[c] EXCEPT
                                      !.erd = children'[c].erd,
                                      !.nerr = children'[c].nerr,
                                      !.proc = children'[c].proc,
                                      !.orphan = children'[c].orphan,
                                      !.hit = children'[c].hit]
             /\ \A line \in StderrLines :
                  ReadStderr(c, line)
                  => /\ NewEvents = <<AgentOutputEv(id, "stderr", line)>>
                     /\ agents' = agents
                     /\ seen' = seen
             /\ (ReadStderr(c, IoErr) \/ StderrEof(c))
                => /\ NewEvents = <<>>
                   /\ agents' = agents]_vars

\* C29 witness: a child of a session without a stored conversation id wrote
\* a result frame with a session id on stderr and a line on stdout; its
\* stdout reader has ended and its final idle is the last message on the
\* bus, after the stdout line; the session still has no conversation id
C29_Witness ==
    \E c \in DOMAIN children :
        LET id == children[c].agent
        IN  /\ children[c].rd = "done"
            /\ children[c].nread = 1
            /\ children[c].nerr = 1
            /\ children[c].doneAt = Len(bus)
            /\ bus[Len(bus)] = AgentStatusEv(id, "idle")
            /\ StdoutIn(id, bus) = <<AgentOutputEv(id, "stdout", Text)>>
            /\ \E i \in DOMAIN bus :
                  bus[i] = AgentOutputEv(id, "stderr",
                                         Frame(Some("result"), Some("S1")))
            /\ StatusesIn(id, bus) = <<"thinking", "idle">>
            /\ Present(id)
            /\ agents[id].session_id = None

---------------------------------------------------------------------------
(* Termination of the PTY reader task *)

\* what the scheduler and the kernel guarantee to the reader task of PTY r:
\* the task runs on (the check of the kill channel and the publish are
\* taken), and a read on a PTY whose slave side is closed returns.  Nothing
\* makes a running shell write or end.
FairReader(r) ==
    /\ WF_vars(PtyCheck(r))
    /\ WF_vars(PtySend(r))
    /\ WF_vars(PtyRead(r, "eof"))

SpecTermLive == Init /\ [][NextTerm]_vars /\ \A r \in 1..MaxTerms : FairReader(r)

\* C31: once the session of a PTY has been removed by kill_terminal or
\* dropped by a replacing insert, the PTY's reader task eventually exits,
\* also when the shell writes nothing more.
C31_ReaderExits ==
    \A r \in 1..MaxTerms :
        (r \in DOMAIN ptys /\ ptys[r].session # "registered")
            ~> (r \in DOMAIN ptys /\ ptys[r].pc = "done")

---------------------------------------------------------------------------
(* Order of a line's events, and statuses across send, stop and kill *)

\* C32: for every stdout line that yields a status event, the reader
\* publishes the line's agent-output/stdout event first and the status event
\* derived from the line after it.
C32_OutputBeforeStatus ==
    [][\A c \in 1..MaxChildren, line \in ParseLines :
         (ReadLine(c, line) /\ Len(NewEvents) = 2)
         => /\ NewEvents[1] = AgentOutputEv(children[c].agent, "stdout", line)
            /\ NewEvents[2].type = "agent-status"]_vars

---------------------------------------------------------------------------
(* The PTY reader's loop *)

\* the readers that hold a chunk they have read and not yet published
Holding(ps) == {r \in DOMAIN ps : ps[r].pc \in {"check", "send"}}

\* C33: the PTY reader checks the kill channel after each read that returned
\* data and before publishing.  With a signal pending it exits and the chunk
\* is not published; with none pending it publishes exactly one
\* terminal-output event for the chunk and reads on.  On end-of-file or an
\* error other than would-block it exits; on would-block it retries and
\* publishes nothing.  So the events published never outnumber the chunks
\* read, and fall short of them only by chunks still held or dropped by a
\* reader that has exited.
C33_CheckBeforePublish ==
    [][\A r \in 1..MaxTerms :
         /\ PtyRead(r, "data")
            => /\ ptys'[r].pc = "check"
               /\ tbus' = tbus
         /\ (PtyCheck(r) /\ ptys[r].signal > 0)
            => /\ ptys'[r].pc = "done"
               /\ tbus' = tbus
         /\ (PtyCheck(r) /\ ptys[r].signal = 0)
            => /\ ptys'[r].pc = "send"
               /\ tbus' = tbus
         /\ PtySend(r)
            => /\ tbus' = Append(tbus, TerminalOutputEv(ptys[r].tid))
               /\ ptys'[r].pc = "read"
         /\ PtyRead(r, "eof")
            => /\ ptys'[r].pc = "done"
               /\ tbus' = tbus
         /\ PtyRead(r, "wouldblock")
            => /\ ptys'[r] = ptys[r]
               /\ tbus' = tbus
         /\ (r \in DOMAIN ptys /\ ptys[r].pc = "done")
            => /\ ptys'[r].pc = "done"
               /\ ptys'[r].nread = ptys[r].nread
         /\ tbus' # tbus => \E q \in DOMAIN ptys : ptys[q].pc = "send"
         /\ Len(tbus') + Cardinality(Holding(ptys')) <= ChunksRead(ptys')
         /\ ChunksRead(ptys')
              <= Len(tbus') + Cardinality(Holding(ptys'))
                   + Cardinality({q \in DOMAIN ptys' : ptys'[q].pc = "done"})]_vars

\* C33 witness: a reader got a chunk while the kill signal was pending, took
\* the signal and exited, and no event was published
C33_Witness ==
    \E r \in DOMAIN ptys :
        /\ ptys[r].pc = "done"
        /\ ptys[r].session = "killed"
        /\ ptys[r].signal = 0
        /\ ptys[r].nread = 1
        /\ tbus = <<>>

---------------------------------------------------------------------------
(* Statuses across send, stop and kill_agent *)

\* the child of the latest send of session id (children are in send order)
LastSent(id) ==
    LET cs == {c \in DOMAIN children : children[c].agent = id}
    IN  CHOOSE c \in cs : \A k \in cs : k <= c

\* a step of the stdout reader of child c
ReaderStep(c) ==
    \/ \E line \in StatusLines \cup {IoErr} : ReadLine(c, line)
    \/ ReadEof(c)

\* C34: once a send has published thinking for a session, an idle status is
\* published for the session only by the stdout reader of the child of that
\* send (a terminal-class frame, or the end of its stdout) or by a stop: no
\* idle of an earlier child's reader comes after the new thinking.
C34_NoStaleIdle ==
    [][\A id \in AgentIds :
         ((\E c \in DOMAIN children : children[c].agent = id)
            /\ \E i \in DOMAIN NewEvents : NewEvents[i] = AgentStatusEv(id, "idle"))
         => \/ \E killOk \in BOOLEAN : stop_agent(id, killOk)
            \/ ReaderStep(LastSent(id))]_vars

\* the latest control-plane call was a stop of session id, and a stop of the
\* session has ended a child and published idle with no send after it
StoppedIdle(id) ==
    /\ last = Call("stop_agent", id, "ok")
    /\ \E c \in ChildrenOf(id) : children[c].hit

\* C35: after stop has published idle for a session, no working or error
\* status is published for the session until the next send: lines of the
\* stopped child still in its stdout pipe leave the session idle.
C35_IdleAfterStop ==
    [][\A id \in AgentIds :
         StoppedIdle(id)
         => \/ \E env \in AnyHost.env : send_message(id, env)
            \/ \A i \in DOMAIN NewEvents :
                  /\ NewEvents[i] # AgentStatusEv(id, "working")
                  /\ NewEvents[i] # AgentStatusEv(id, "error")]_vars

\* C36: after kill_agent(id) has returned success, and until another call is
\* made, no agent-output and no agent-status event carrying the id is
\* published, however the session's readers interleave with the kill.
C36_NoEventAfterKill ==
    [][\A id \in AgentIds :
         (last = Call("kill_agent", id, "ok") /\ last' = last)
         => \A i \in DOMAIN NewEvents : NewEvents[i].agent_id # id]_vars

---------------------------------------------------------------------------
(* Rejected writes *)

\* C37: a write_file request rejected because its path lies outside the
\* workspace leaves the file system as it was: no directory is created and
\* no file is written before the rejection.
C37_RejectedWriteChangesNothing ==
    [][\A id \in AgentIds, req \in Requests, content \in Contents :
         (write_file(id, req, content) /\ last'.err = "Access denied")
         => fsys' = fsys]_vars

---------------------------------------------------------------------------
(* Inbound routing and kill_terminal *)

\* the session of PTY r is in the registry
Registered(r) == \E tid \in DOMAIN terminals : terminals[tid].pty = r

\* C38: no terminal-input write and no terminal-resize is applied to a
\* terminal session after kill_terminal for its id has returned: every piece
\* written and every resize goes to a PTY whose session is in the registry
\* before and after the step, and a frame that finds its terminal absent
\* writes and resizes nothing.
C38_NoWriteAfterKill ==
    [][/\ \A r \in 1..MaxTerms :
            (inbound'.sizes[r] # inbound.sizes[r]
               \/ \E i \in DOMAIN inbound'.written :
                     /\ i > Len(inbound.written)
                     /\ inbound'.written[i].pty = r)
            => Registered(r) /\ Registered(r)'
       /\ \A c \in Conns, kind \in {"input", "resize"}, tid \in FrameTids,
            ok \in BOOLEAN :
            (InboundFrame(c, kind, tid, ok) /\ ~TPresent(tid))
            => /\ inbound'.written = inbound.written
               /\ inbound'.sizes = inbound.sizes
               /\ inbound'.conns[c].pc = "next"]_vars

\* C38 witness: a connection wrote a whole frame to a PTY, the PTY's session
\* has since been killed and nothing else was written, and the connection
\* has handled a second terminal-input frame
C38_Witness ==
    \E c \in Conns, r \in DOMAIN ptys :
        /\ ptys[r].session = "killed"
        /\ Len(inbound.written) = FrameLen
        /\ \A i \in DOMAIN inbound.written :
              inbound.written[i] = [pty |-> r, conn |-> c, n |-> 1, k |-> i]
        /\ inbound.conns[c].n = 2
        /\ inbound.conns[c].kind = "input"
        /\ inbound.conns[c].pc = "next"
        /\ terminals = EmptyMap

---------------------------------------------------------------------------
(* Errors of the session operations *)

\* a call of one of the four operations on session id
SessionCall(id) ==
    \/ \E killOk, dropOk \in BOOLEAN : kill_agent(id, killOk, dropOk)
    \/ \E killOk \in BOOLEAN : stop_agent(id, killOk)
    \/ \E env \in AnyHost.env : send_message(id, env)
    \/ \E u \in SettingsUpdates :
          update_agent_settings(id, u.model, u.thinking_enabled, u.mcp_servers)

\* C39: kill_agent, stop_agent, send_message and update_agent_settings
\* return not-found exactly when no session with the id is in the registry,
\* and whenever one of them returns an error the registry holds what it
\* held before the call.
C39_ErrorsLeaveRegistry ==
    [][\A id \in AgentIds :
         SessionCall(id)
         => /\ last'.res = "not_found" <=> ~Present(id)
            /\ last'.res # "ok" => agents' = agents]_vars

---------------------------------------------------------------------------
(* Every turn ends *)

\* a host on which the CLI is found; spawn and kill may fail
TurnHost == [cli |-> {TRUE}, killOk |-> BOOLEAN, env |-> {"ok", "spawn_fail"}]

\* what the children write in SpecTurns: a frame that gives working, one
\* that gives idle, and a read error
TurnLines == {Frame(Some("assistant"), None), Frame(Some("result"), None), IoErr}

NextTurns == AgentCalls(TurnHost) \/ AgentThreads(TurnLines)

\* every child closes its stdout in the end (the claim's proviso), and a
\* reader whose pipe is closed gets to see the end of the stream
FairTurns ==
    \A c \in 1..MaxChildren : WF_vars(ChildExit(c)) /\ WF_vars(ReadEof(c))

SpecTurns == Init /\ [][NextTurns]_vars /\ FairTurns

\* the last status published for session id is one of ss
LastStatusIn(id, ss) ==
    \E s \in ss : LastStatus(id, bus) = Some(s)

\* every stdout reader of session id has ended
ReadersDone(id) ==
    \A c \in DOMAIN children : children[c].agent = id => children[c].rd = "done"

\* C40: every thinking published by a send is eventually followed by an
\* idle or error status for the same session, given that the child closes
\* its stdout in the end; and no sequence of send, stop and kill_agent
\* leaves thinking or working as the last status of a session whose
\* children's readers have all finished.
C40_TurnsEnd ==
    \A id \in AgentIds :
        /\ [](ReadersDone(id) => ~LastStatusIn(id, {"thinking", "working"}))
        /\ LastStatusIn(id, {"thinking", "working"})
              ~> LastStatusIn(id, {"idle", "error"})

\* C40 witness: a session was sent to, stopped, sent to again and killed;
\* all its readers have ended and idle is the last status under its id
C40_Witness ==
    \E id \in AgentIds :
        /\ Len(children) = 2
        /\ ReadersDone(id)
        /\ \A c \in DOMAIN children :
              children[c].agent = id /\ children[c].hit /\ children[c].nread > 0
        /\ ~Present(id)
        /\ LastStatusIn(id, {"idle"})
        /\ Len(StatusesIn(id, bus)) >= 5

=============================================================================
